---- MODULE Spec2Model ----
(***************************************************************************)
(* A model of qt_webview_bridge.bridge: the WebViewBridge base class, the   *)
(* DataBridge that keeps an ordered item list (_items) next to an id-keyed *)
(* index (_items_by_id), and the ActionBridge that dispatches the page's   *)
(* actions to registered handlers.                                         *)
(*                                                                         *)
(* Python values are modelled as follows.                                  *)
(*   str    a TLA+ string                                                  *)
(*   dict   a function from a subset of the keys to strings; a dict is an  *)
(*          object with identity, so dicts live in `heap` and the list and *)
(*          the index hold references (indices into heap)                  *)
(*   list   a sequence                                                     *)
(* json.dumps writes the keys of a dict in KeyOrder (Python writes them in *)
(* insertion order; no operation of the bridge reads that order).          *)
(*                                                                         *)
(* set_items keeps the caller's list object as _items; callers here do not *)
(* touch a list after passing it, so the list is modelled by value.  The   *)
(* field values callers pass are strings, which json.dumps always encodes. *)
(***************************************************************************)
EXTENDS Integers, Sequences, FiniteSets, TLC

VARIABLES
    heap,            \* the dict objects the bridge can reach: ref -> dict
    items,           \* DataBridge._items: sequence of refs
    items_by_id,     \* DataBridge._items_by_id: id -> ref
    error_callback,  \* WebViewBridge._error_callback
    signals,         \* the Qt signals emitted by the last call, in order
    callback_log,    \* the error-callback invocations of the last call
    ret,             \* what the last call returned (NoReturn for None)
    call,            \* the last call: its name and its arguments
    loaded,          \* the argument of the last set_items call while no
                     \* later call has mutated the item set
    before_add,      \* the item set as it was before the last call, when
                     \* that call was an add_item of an item with an id
    action_handlers, \* ActionBridge._action_handlers: action type -> handler
    action_order,    \* the keys of _action_handlers in insertion order
    handler_log,     \* the handler invocations of the last call
    raised,          \* the exception the last call raised to its caller
                     \* (None when it returned)
    web_content_path,  \* CleanWebView._web_content_path
    dev_html_path,     \* CleanWebView._dev_html_path
    dev_html_content,  \* CleanWebView._dev_html_content
    load_callbacks,    \* CleanWebView._load_callbacks
    disk,              \* the files that exist under the content roots
    temp_writable,     \* whether the package's temp directory can be written
    temp_file,         \* the text of temp/webview_content.html (None: no file)
    loading,           \* the engine load requests that have not completed
    in_flight,         \* what made each of them, oldest first
    engine_requests,   \* the files the last call handed to web_view.load
    load_callback_log, \* the load-callback invocations of the last call
    bridge_objects,    \* CleanWebView._bridge_objects: name -> object
    channel_objects,   \* the objects registered with web_channel: name -> object
    last_registered,   \* per name, the object of the last register_bridge_object
                       \* call since the last clear_bridge_objects call
    stack,             \* the calls executing on the control thread, outermost
                       \* first; each frame names the user code it is inside
    dispatch,          \* the callback loop of _on_load_finished: whether it is
                       \* running, the position it is at, and the number of
                       \* callbacks registered when it started
    instances,         \* the widgets of one process that load inline HTML: per
                       \* widget its _dev_html_content, the text its last load
                       \* wrote, whether its engine has yet to read the file it
                       \* was handed, and the text its engine read last
    temp_writer        \* the widget that wrote temp/webview_content.html last

view_vars == <<web_content_path, dev_html_path, dev_html_content, load_callbacks,
               disk, temp_writable, temp_file, loading, in_flight, engine_requests,
               load_callback_log, bridge_objects, channel_objects, last_registered>>

\* the state of the stepwise models of the control thread
thread_vars == <<stack, dispatch, instances, temp_writer>>

vars == <<heap, items, items_by_id, error_callback, signals, callback_log,
          ret, call, loaded, before_add, action_handlers, action_order,
          handler_log, raised,
          web_content_path, dev_html_path, dev_html_content, load_callbacks,
          disk, temp_writable, temp_file, loading, in_flight, engine_requests,
          load_callback_log, bridge_objects, channel_objects, last_registered,
          stack, dispatch, instances, temp_writer>>

-----------------------------------------------------------------------------
(* Bounds and input domains *)

MaxItems == 2

None == "<None>"
NoReturn == "<no return>"

KeyOrder == <<"id", "name", "description", "action_id", "status">>

Ids == {"", "a", "b"}
IdOrder == <<"", "a", "b">>

\* The dicts a caller passes as items
InputItems ==
    { [k \in {"id", "name"} |-> IF k = "id" THEN "a" ELSE "Ab"],
      [k \in {"id", "description"} |-> IF k = "id" THEN "a" ELSE "Ba"],
      [k \in {"id", "name", "description"} |->
            IF k = "id" THEN "b" ELSE IF k = "name" THEN "Ab" ELSE "Ba"],
      [k \in {"id", "name"} |-> IF k = "id" THEN "" ELSE "Ab"],
      [k \in {"name"} |-> "Ab"] }

\* The dicts a caller passes as partial fields to update_item
InputPartials ==
    { [k \in {"name"} |-> "c"],
      [k \in {"id"} |-> "b"] }

Queries == {"", "AB", "ba", "c"}

\* The lists a caller passes to set_items: up to two dicts (add_item makes
\* the list longer, up to MaxItems)
InputLists == UNION { [1..k -> InputItems] : k \in 0..2 }

-----------------------------------------------------------------------------
(* str *)

LowerChar(c) ==
    CASE c = "A" -> "a"
      [] c = "B" -> "b"
      [] c = "C" -> "c"
      [] OTHER -> c

\* str.lower()
RECURSIVE lower(_)
lower(s) ==
    IF Len(s) = 0 THEN ""
    ELSE LowerChar(SubSeq(s, 1, 1)) \o lower(SubSeq(s, 2, Len(s)))

\* sub in s
str_contains(sub, s) ==
    \E i \in 1..(Len(s) - Len(sub) + 1) : SubSeq(s, i, i + Len(sub) - 1) = sub

\* a truthy str: a non-empty one (None is falsy)
truthy(v) == v # None /\ v # ""

-----------------------------------------------------------------------------
(* dict *)

\* d.get(key, default)
dict_get(d, key, default) == IF key \in DOMAIN d THEN d[key] ELSE default

\* d.update(other): the keys of other overwrite, the rest stays
dict_update(d, other) ==
    [k \in DOMAIN d \cup DOMAIN other |-> IF k \in DOMAIN other THEN other[k] ELSE d[k]]

EmptyDict == [k \in {} |-> ""]

-----------------------------------------------------------------------------
(* json.dumps(data, ensure_ascii=False) for the data the bridge encodes *)

RECURSIVE join(_, _)
join(parts, sep) ==
    IF Len(parts) = 0 THEN ""
    ELSE IF Len(parts) = 1 THEN parts[1]
    ELSE parts[1] \o sep \o join(Tail(parts), sep)

dumps_str(s) == "\"" \o s \o "\""

dumps_dict(d) ==
    LET present == SelectSeq(KeyOrder, LAMBDA k : k \in DOMAIN d)
    IN  "{" \o join([i \in 1..Len(present) |->
                        dumps_str(present[i]) \o ": " \o dumps_str(d[present[i]])],
                    ", ") \o "}"

dumps_list(ds) ==
    "[" \o join([i \in 1..Len(ds) |-> dumps_dict(ds[i])], ", ") \o "]"

\* the dicts a sequence of refs points to
deref(h, refs) == [i \in 1..Len(refs) |-> h[refs[i]]]


\* Python data handed to json.dumps
PyList(ds) == [type |-> "list", value |-> ds]
PyDict(d) == [type |-> "dict", value |-> d]
PyTuple(ds) == [type |-> "tuple", value |-> ds]
\* a list of str
PyStrList(ss) == [type |-> "list[str]", value |-> ss]

dumps_str_list(ss) ==
    "[" \o join([i \in 1..Len(ss) |-> dumps_str(ss[i])], ", ") \o "]"

\* json.dumps raises TypeError on anything that is no list, tuple, dict or
\* str
json_encodable(data) == data.type \in {"list", "dict", "tuple", "list[str]"}

\* a tuple is written as an array
json_dumps(data) ==
    CASE data.type = "list" -> dumps_list(data.value)
      [] data.type = "dict" -> dumps_dict(data.value)
      [] data.type = "tuple" -> dumps_list(data.value)
      [] data.type = "list[str]" -> dumps_str_list(data.value)

-----------------------------------------------------------------------------
(* WebViewBridge.  An operator takes the bridge object `self` (a record of *)
(* its fields, the heap, and the signals and callback invocations of the   *)
(* running call) and gives the bridge object after the call.               *)

Signal(name, args) == [signal |-> name, args |-> args]

emit(self, name, args) == [self EXCEPT !.signals = Append(@, Signal(name, args))]

\* set_error_callback gone wrong: a callback that is set stays
set_error_callback_keeps_first(self, callback) ==
    IF self.error_callback # None
    THEN self
    ELSE [self EXCEPT !.error_callback = callback]

set_error_callback(self, callback) == [self EXCEPT !.error_callback = callback]

_emit_error(self, message) ==
    LET s1 == emit(self, "error_occurred", <<message>>)
    IN  IF self.error_callback # None
        THEN [s1 EXCEPT !.callback_log =
                    Append(@, [callback |-> self.error_callback, message |-> message,
                               after |-> Len(s1.signals)])]
        ELSE s1

\* The error callbacks an application sets: one that returns and one that
\* raises CallbackFailure
ReturningCallbacks == {"cb_returns"}
RaisingCallbacks == {"cb_raises"}
CallbackFailure == "callback failed"

\* the exception _emit_error raises: the one its callback raises, if any
_emit_error_raises(self) ==
    IF self.error_callback \in RaisingCallbacks THEN CallbackFailure ELSE None

\* gives the bridge after the call, the text returned, and the exception
\* raised instead of returning (None when it returns)
_safe_json_dumps(self, data) ==
    IF json_encodable(data)
    THEN [self |-> self, text |-> json_dumps(data), raised |-> None]
    ELSE [self |-> _emit_error(self, "JSON serialization error: " \o data.type),
          text |-> "{}", raised |-> _emit_error_raises(self)]

-----------------------------------------------------------------------------
(* DataBridge *)

item_id_of(h, ref) == dict_get(h[ref], "id", None)

\* {item.get("id"): item for item in items if item.get("id")}: a later item
\* overwrites an earlier one with the same id
index_of(h, refs) ==
    LET indexed == { i \in 1..Len(refs) : truthy(item_id_of(h, refs[i])) }
        last(k) == CHOOSE i \in indexed :
                       /\ item_id_of(h, refs[i]) = k
                       /\ \A j \in indexed : item_id_of(h, refs[j]) = k => j <= i
    IN  [k \in { item_id_of(h, refs[i]) : i \in indexed } |-> refs[last(k)]]

\* set_items gone wrong: the list keeps only the items that get indexed
set_items_indexed_only(self, new_items) ==
    LET kept == SelectSeq(new_items, LAMBDA ref : truthy(item_id_of(self.heap, ref)))
        s1 == [self EXCEPT !.items = kept,
                           !.items_by_id = index_of(self.heap, new_items)]
        enc == _safe_json_dumps(s1, PyList(deref(s1.heap, kept)))
        s2 == emit(enc.self, "items_loaded", <<enc.text>>)
    IN  emit(s2, "data_updated", <<enc.text>>)

\* set_items gone wrong: the list is announced before it is stored
set_items_announces_old(self, new_items) ==
    LET enc == _safe_json_dumps(self, PyList(deref(self.heap, self.items)))
        s1 == emit(enc.self, "items_loaded", <<enc.text>>)
        s2 == emit(s1, "data_updated", <<enc.text>>)
    IN  [s2 EXCEPT !.items = new_items,
                   !.items_by_id = index_of(self.heap, new_items)]

set_items(self, new_items) ==
    LET s1 == [self EXCEPT !.items = new_items,
                           !.items_by_id = index_of(self.heap, new_items)]
        enc == _safe_json_dumps(s1, PyList(deref(s1.heap, new_items)))
        s2 == emit(enc.self, "items_loaded", <<enc.text>>)
    IN  emit(s2, "data_updated", <<enc.text>>)

\* update_item gone wrong: a missing id is inserted into the index
update_item_upsert(self, item_id, item_data) ==
    IF item_id \in DOMAIN self.items_by_id
    THEN LET ref == self.items_by_id[item_id]
             s1 == [self EXCEPT !.heap[ref] = dict_update(@, item_data)]
             hits == { i \in 1..Len(s1.items) : item_id_of(s1.heap, s1.items[i]) = item_id }
             first == CHOOSE i \in hits : \A j \in hits : i <= j
             s2 == IF hits = {} THEN s1 ELSE [s1 EXCEPT !.items[first] = ref]
             enc == _safe_json_dumps(s2, PyDict(item_data))
         IN  emit(enc.self, "item_updated", <<item_id, enc.text>>)
    ELSE LET ref == Len(self.heap) + 1
             s1 == [self EXCEPT !.heap = Append(@, item_data),
                                !.items_by_id = [k \in DOMAIN @ \cup {item_id} |->
                                                    IF k = item_id THEN ref ELSE @[k]]]
         IN  _emit_error(s1, "Item not found: " \o item_id)

update_item(self, item_id, item_data) ==
    IF item_id \in DOMAIN self.items_by_id
    THEN LET ref == self.items_by_id[item_id]
             s1 == [self EXCEPT !.heap[ref] = dict_update(@, item_data)]
             hits == { i \in 1..Len(s1.items) : item_id_of(s1.heap, s1.items[i]) = item_id }
             first == CHOOSE i \in hits : \A j \in hits : i <= j
             s2 == IF hits = {} THEN s1 ELSE [s1 EXCEPT !.items[first] = ref]
             enc == _safe_json_dumps(s2, PyDict(item_data))
         IN  emit(enc.self, "item_updated", <<item_id, enc.text>>)
    ELSE _emit_error(self, "Item not found: " \o item_id)

\* gives the bridge after the call and the text returned
get_all_items(self) == _safe_json_dumps(self, PyList(deref(self.heap, self.items)))

get_item(self, item_id) ==
    LET item == IF item_id \in DOMAIN self.items_by_id
                THEN self.heap[self.items_by_id[item_id]]
                ELSE EmptyDict
    IN  _safe_json_dumps(self, PyDict(item))

\* request_search gone wrong: the query is compared as typed
request_search_case_sensitive(self, query) ==
    LET matches(ref) ==
            LET name == lower(dict_get(self.heap[ref], "name", ""))
                description == lower(dict_get(self.heap[ref], "description", ""))
            IN  str_contains(query, name) \/ str_contains(query, description)
        results == SelectSeq(self.items, matches)
        enc == _safe_json_dumps(self, PyList(deref(self.heap, results)))
    IN  emit(enc.self, "search_results", <<enc.text>>)

request_search(self, query) ==
    LET query_lower == lower(query)
        matches(ref) ==
            LET name == lower(dict_get(self.heap[ref], "name", ""))
                description == lower(dict_get(self.heap[ref], "description", ""))
            IN  str_contains(query_lower, name) \/ str_contains(query_lower, description)
        results == SelectSeq(self.items, matches)
        enc == _safe_json_dumps(self, PyList(deref(self.heap, results)))
    IN  emit(enc.self, "search_results", <<enc.text>>)

\* add_item gone wrong: an item without an id is appended all the same
add_item_appends_idless(self, item) ==
    IF "id" \in DOMAIN self.heap[item]
    THEN LET id == self.heap[item]["id"]
             s1 == [self EXCEPT !.items = Append(@, item),
                                !.items_by_id = [k \in DOMAIN @ \cup {id} |->
                                                    IF k = id THEN item ELSE @[k]]]
             enc == _safe_json_dumps(s1, PyDict(s1.heap[item]))
             s2 == emit(enc.self, "item_updated", <<id, enc.text>>)
         IN  set_items(s2, s2.items)
    ELSE set_items(self, Append(self.items, item))

\* item is a reference to the caller's dict
add_item(self, item) ==
    IF "id" \in DOMAIN self.heap[item]
    THEN LET id == self.heap[item]["id"]
             s1 == [self EXCEPT !.items = Append(@, item),
                                !.items_by_id = [k \in DOMAIN @ \cup {id} |->
                                                    IF k = id THEN item ELSE @[k]]]
             enc == _safe_json_dumps(s1, PyDict(s1.heap[item]))
             s2 == emit(enc.self, "item_updated", <<id, enc.text>>)
         IN  set_items(s2, s2.items)
    ELSE self

\* remove_item gone wrong: the list is refreshed also when the id is missing
remove_item_refreshes_always(self, item_id) ==
    LET s0 == IF item_id \in DOMAIN self.items_by_id
              THEN [self EXCEPT
                       !.items_by_id = [k \in DOMAIN @ \ {item_id} |-> @[k]],
                       !.items = SelectSeq(@, LAMBDA ref :
                                                 item_id_of(self.heap, ref) # item_id)]
              ELSE _emit_error(self, "Item not found for removal: " \o item_id)
    IN  set_items(s0, s0.items)

\* remove_item gone wrong: the id is deleted from the index, not from the list
remove_item_index_only(self, item_id) ==
    IF item_id \in DOMAIN self.items_by_id
    THEN LET s1 == [self EXCEPT
                       !.items_by_id = [k \in DOMAIN @ \ {item_id} |-> @[k]]]
         IN  set_items(s1, s1.items)
    ELSE _emit_error(self, "Item not found for removal: " \o item_id)

remove_item(self, item_id) ==
    IF item_id \in DOMAIN self.items_by_id
    THEN LET s1 == [self EXCEPT
                       !.items_by_id = [k \in DOMAIN @ \ {item_id} |-> @[k]],
                       !.items = SelectSeq(@, LAMBDA ref :
                                                 item_id_of(self.heap, ref) # item_id)]
         IN  set_items(s1, s1.items)
    ELSE _emit_error(self, "Item not found for removal: " \o item_id)

-----------------------------------------------------------------------------
(* Object identity.  A caller's dicts are new objects, placed after the    *)
(* ones the bridge holds; when a call returns, the dicts that neither the  *)
(* list nor the index references any more are dropped and the references   *)
(* renumbered in order of first use, so that a state names its objects in  *)
(* one way only.                                                           *)

RECURSIVE dedup(_)
dedup(s) ==
    IF Len(s) = 0 THEN <<>>
    ELSE LET init == dedup(SubSeq(s, 1, Len(s) - 1))
             x == s[Len(s)]
         IN  IF \E i \in 1..Len(init) : init[i] = x THEN init ELSE Append(init, x)

collect(self) ==
    LET keys == SelectSeq(IdOrder, LAMBDA k : k \in DOMAIN self.items_by_id)
        order == dedup(self.items \o [i \in 1..Len(keys) |-> self.items_by_id[keys[i]]])
        new(ref) == CHOOSE i \in 1..Len(order) : order[i] = ref
    IN  [self EXCEPT !.heap = [i \in 1..Len(order) |-> self.heap[order[i]]],
                     !.items = [i \in 1..Len(self.items) |-> new(self.items[i])],
                     !.items_by_id = [k \in DOMAIN self.items_by_id |->
                                         new(self.items_by_id[k])]]

\* the caller's dicts become objects; gives the heap and their references
allocate(h, dicts) ==
    [heap |-> h \o dicts, refs |-> [i \in 1..Len(dicts) |-> Len(h) + i]]

-----------------------------------------------------------------------------
(* The state machine: one action per call on the bridge *)

\* The widgets an application creates side by side, and a widget that has
\* been constructed and nothing else
Widgets == {"A", "B"}

NewInstance ==
    [dev_html_content |-> None, wrote |-> None, reading |-> FALSE,
     received |-> None]

Init ==
    /\ heap = <<>>
    /\ items = <<>>
    /\ items_by_id = [k \in {} |-> 0]
    /\ error_callback = None
    /\ signals = <<>>
    /\ callback_log = <<>>
    /\ ret = NoReturn
    /\ call = [op |-> "__init__"]
    /\ loaded = [valid |-> FALSE, items |-> <<>>]
    /\ before_add = [valid |-> FALSE]
    /\ action_handlers = [t \in {} |-> 0]
    /\ action_order = <<>>
    /\ handler_log = <<>>
    /\ raised = None
    /\ web_content_path = None
    /\ dev_html_path = None
    /\ dev_html_content = None
    /\ load_callbacks = <<>>
    /\ disk = {}
    /\ temp_writable = TRUE
    /\ temp_file = None
    /\ loading = 0
    /\ in_flight = <<>>
    /\ engine_requests = <<>>
    /\ load_callback_log = <<>>
    /\ bridge_objects = [n \in {} |-> 0]
    /\ channel_objects = [n \in {} |-> 0]
    /\ last_registered = [n \in {} |-> 0]
    /\ stack = <<>>
    /\ dispatch = [running |-> FALSE, index |-> 1, registered |-> 0]
    /\ instances = [w \in Widgets |-> NewInstance]
    /\ temp_writer = None

\* the bridge object when a call starts
SelfAt(h) ==
    [heap |-> h, items |-> items, items_by_id |-> items_by_id,
     error_callback |-> error_callback, signals |-> <<>>, callback_log |-> <<>>]

NotLoaded == [valid |-> FALSE, items |-> <<>>]

\* the call returns: the bridge object becomes the state
Return(self, result, the_call, now_loaded) ==
    LET s == collect(self)
    IN  /\ heap' = s.heap
        /\ items' = s.items
        /\ items_by_id' = s.items_by_id
        /\ error_callback' = s.error_callback
        /\ signals' = s.signals
        /\ callback_log' = s.callback_log
        /\ ret' = result
        /\ call' = the_call
        /\ loaded' = now_loaded
        /\ before_add' =
              IF the_call.op = "add_item" /\ "id" \in DOMAIN the_call.item
              THEN [valid |-> TRUE, heap |-> heap, items |-> items,
                    items_by_id |-> items_by_id]
              ELSE [valid |-> FALSE]
        /\ UNCHANGED <<action_handlers, action_order, handler_log, raised>>
        /\ UNCHANGED view_vars
        /\ UNCHANGED thread_vars

SetItems ==
    \E S \in InputLists :
        LET a == allocate(heap, S)
        IN  Return(set_items(SelfAt(a.heap), a.refs), NoReturn,
                   [op |-> "set_items", items |-> S],
                   [valid |-> TRUE, items |-> S])

UpdateItem ==
    \E item_id \in Ids, item_data \in InputPartials :
        Return(update_item(SelfAt(heap), item_id, item_data), NoReturn,
               [op |-> "update_item", item_id |-> item_id, item_data |-> item_data],
               IF item_id \in DOMAIN items_by_id THEN NotLoaded ELSE loaded)

GetAllItems ==
    LET r == get_all_items(SelfAt(heap))
    IN  Return(r.self, r.text, [op |-> "get_all_items"], loaded)

GetItem ==
    \E item_id \in Ids :
        LET r == get_item(SelfAt(heap), item_id)
        IN  Return(r.self, r.text, [op |-> "get_item", item_id |-> item_id], loaded)

RequestSearch ==
    \E query \in Queries :
        Return(request_search(SelfAt(heap), query), NoReturn,
               [op |-> "request_search", query |-> query], loaded)

AddItem ==
    /\ Len(items) < MaxItems
    /\ \E item \in InputItems :
        LET a == allocate(heap, <<item>>)
        IN  Return(add_item(SelfAt(a.heap), a.refs[1]), NoReturn,
                   [op |-> "add_item", item |-> item],
                   IF "id" \in DOMAIN item THEN NotLoaded ELSE loaded)

RemoveItem ==
    \E item_id \in Ids :
        Return(remove_item(SelfAt(heap), item_id), NoReturn,
               [op |-> "remove_item", item_id |-> item_id],
               IF item_id \in DOMAIN items_by_id THEN NotLoaded ELSE loaded)

DataNext ==
    \/ SetItems
    \/ UpdateItem
    \/ GetAllItems
    \/ GetItem
    \/ RequestSearch
    \/ AddItem
    \/ RemoveItem

DataSpec == Init /\ [][DataNext]_vars

-----------------------------------------------------------------------------
(* The item set *)

\* the list positions whose record carries the id
Carriers(h, refs, id) ==
    { i \in 1..Len(refs) : "id" \in DOMAIN h[refs[i]] /\ h[refs[i]]["id"] = id }

\* C1: every record of the item list has an entry in the index under its
\* id, and every index entry is a record of the list.
C1_ListAndIndexInSync ==
    /\ \A i \in 1..Len(items) :
          /\ "id" \in DOMAIN heap[items[i]]
          /\ heap[items[i]]["id"] \in DOMAIN items_by_id
    /\ \A k \in DOMAIN items_by_id :
          \E i \in 1..Len(items) : items[i] = items_by_id[k]

\* C2: no two records of the item list carry the same id.
C2_ItemIdsUnique ==
    \A i, j \in 1..Len(items) :
        ( /\ i # j
          /\ "id" \in DOMAIN heap[items[i]]
          /\ "id" \in DOMAIN heap[items[j]] )
        => heap[items[i]]["id"] # heap[items[j]]["id"]

\* C3: set_items(S) makes the item list exactly S, in the order of S, and
\* get_all_items() returns the encoding of S for as long as no call has
\* mutated the item set since.
C3_GetAllItemsAfterSetItems ==
    /\ call.op = "set_items" => deref(heap, items) = call.items
    /\ (call.op = "get_all_items" /\ loaded.valid) =>
          /\ ret = dumps_list(loaded.items)
          /\ signals = <<>>

C3_Witness ==
    /\ call.op = "get_all_items"
    /\ loaded.valid
    /\ Len(loaded.items) = 2
    /\ loaded.items[1] # loaded.items[2]
    /\ "id" \notin DOMAIN loaded.items[2]
    /\ ret = dumps_list(loaded.items)

\* C4: after set_items(S), get_item(i) returns the record of S that carries
\* i, for every id i a record of S carries; for an id that no record
\* carries it returns the encoded empty object and emits no error.
C4_GetItemAfterSetItems ==
    (call.op = "get_item" /\ loaded.valid) =>
        LET S == loaded.items
            carriers == { n \in 1..Len(S) :
                            "id" \in DOMAIN S[n] /\ S[n]["id"] = call.item_id }
        IN  /\ \A n \in carriers : ret = dumps_dict(S[n])
            /\ carriers = {} => (ret = "{}" /\ signals = <<>>)

\* C5: update_item(i, partial) for an id i of the index makes the record
\* under i the previous record with the fields of partial overwritten,
\* leaves the length of the list and every other record of it as they were,
\* and emits one item_updated signal with i and the encoding of partial,
\* and nothing else.
C5_UpdateItemPresent ==
    [][ (call'.op = "update_item" /\ call'.item_id \in DOMAIN items_by_id) =>
          LET i == call'.item_id
              partial == call'.item_data
              old == heap[items_by_id[i]]
              merged == [k \in DOMAIN old \cup DOMAIN partial |->
                            IF k \in DOMAIN partial THEN partial[k] ELSE old[k]]
          IN  /\ i \in DOMAIN items_by_id'
              /\ heap'[items_by_id'[i]] = merged
              /\ Len(items') = Len(items)
              /\ \A n \in 1..Len(items) :
                    items[n] # items_by_id[i] => heap'[items'[n]] = heap[items[n]]
              /\ signals' = <<Signal("item_updated", <<i, dumps_dict(partial)>>)>>
      ]_vars

\* C6: update_item(i, partial) for an id i that is not in the index leaves
\* the list, the index and every record as they were and emits one
\* error_occurred signal whose message names i, and nothing else.
C6_UpdateItemMissing ==
    [][ (call'.op = "update_item" /\ call'.item_id \notin DOMAIN items_by_id) =>
          /\ UNCHANGED <<heap, items, items_by_id>>
          /\ Len(signals') = 1
          /\ signals'[1].signal = "error_occurred"
          /\ signals'[1].args = <<"Item not found: " \o call'.item_id>>
          /\ str_contains(call'.item_id, signals'[1].args[1])
      ]_vars

C6_Witness ==
    /\ call.op = "update_item"
    /\ call.item_id = "b"
    /\ Len(signals) = 1
    /\ signals[1].signal = "error_occurred"
    /\ Len(items) = 2
    /\ DOMAIN items_by_id = {"a"}

\* C7: add_item(item) followed by remove_item(x), x the id of item, leaves
\* the list, the index and the records as they were before the add.
C7_AddThenRemove ==
    [][ ( /\ before_add.valid
          /\ call.op = "add_item"
          /\ call'.op = "remove_item"
          /\ call'.item_id = call.item["id"] ) =>
          /\ heap' = before_add.heap
          /\ items' = before_add.items
          /\ items_by_id' = before_add.items_by_id
      ]_vars

\* C8: remove_item(i) for an id i that is not in the index leaves the list,
\* the index and every record as they were and emits one error_occurred
\* signal whose message names i, and nothing else.
C8_RemoveItemMissing ==
    [][ (call'.op = "remove_item" /\ call'.item_id \notin DOMAIN items_by_id) =>
          /\ UNCHANGED <<heap, items, items_by_id>>
          /\ Len(signals') = 1
          /\ signals'[1].signal = "error_occurred"
          /\ signals'[1].args = <<"Item not found for removal: " \o call'.item_id>>
          /\ str_contains(call'.item_id, signals'[1].args[1])
      ]_vars

C8_Witness ==
    /\ call.op = "remove_item"
    /\ call.item_id = "b"
    /\ Len(signals) = 1
    /\ signals[1].signal = "error_occurred"
    /\ Len(items) = 2
    /\ DOMAIN items_by_id = {"a"}

ContainsIgnoringCase(q, s) ==
    \E off \in 0..(Len(s) - Len(q)) :
        \A n \in 1..Len(q) :
            LowerChar(SubSeq(s, off + n, off + n)) = LowerChar(SubSeq(q, n, n))

\* C10: request_search(q) changes nothing of the bridge and emits one
\* search_results signal, and nothing else; its payload encodes, in list
\* order, the items whose name or description contains q when case is
\* ignored, a missing field counting as the empty string.
C10_RequestSearch ==
    [][ call'.op = "request_search" =>
          LET q == call'.query
              field(d, k) == IF k \in DOMAIN d THEN d[k] ELSE ""
              expected == SelectSeq(deref(heap, items),
                              LAMBDA d : \/ ContainsIgnoringCase(q, field(d, "name"))
                                         \/ ContainsIgnoringCase(q, field(d, "description")))
          IN  /\ UNCHANGED <<heap, items, items_by_id, error_callback>>
              /\ signals' = <<Signal("search_results", <<dumps_list(expected)>>)>>
              /\ q = "" => expected = deref(heap, items)
      ]_vars

C10_Witness ==
    /\ call.op = "request_search"
    /\ call.query = "AB"
    /\ Len(items) = 2
    /\ "name" \notin DOMAIN heap[items[1]]
    /\ signals = <<Signal("search_results", <<dumps_list(<<heap[items[2]]>>)>>)>>

-----------------------------------------------------------------------------
(* ActionBridge.  Its bridge object `self` is the record of                *)
(* _action_handlers and _error_callback with the signals, callback         *)
(* invocations and handler invocations of the running call.                *)

PyNone == [type |-> "NoneType", value |-> <<>>]
\* a Python object json.dumps has no encoding for
PyObject == [type |-> "object", value |-> <<>>]

\* the truth value of a Python value: None and empty containers are falsy
py_falsy(v) ==
    \/ v.type = "NoneType"
    \/ v.type = "dict" /\ DOMAIN v.value = {}
    \/ v.type = "list" /\ Len(v.value) = 0

\* a or b
py_or(a, b) == IF py_falsy(a) THEN b ELSE a

ActionTypes == {"save", "open"}

\* The handlers an application registers: what a handler returns, or the
\* message of the exception it raises
Handlers ==
    { [name |-> "h_ok", outcome |-> "returns",
       value |-> PyDict([k \in {"status"} |-> "ok"]), message |-> ""],
      [name |-> "h_none", outcome |-> "returns", value |-> PyNone, message |-> ""],
      [name |-> "h_empty_list", outcome |-> "returns",
       value |-> PyList(<<>>), message |-> ""],
      [name |-> "h_object", outcome |-> "returns", value |-> PyObject, message |-> ""],
      [name |-> "h_raises", outcome |-> "raises", value |-> PyNone, message |-> "boom"] }

\* The params the page sends: the encoding of an object, with or without an
\* action_id, the encoding of a value that is no object, or text that is no
\* JSON
ParamsTexts == {"{}", "{\"action_id\": \"a1\"}", "[]", "invalid json"}

\* The JSON documents json.loads can meet here
JsonDocuments ==
    { PyDict(EmptyDict), PyDict([k \in {"action_id"} |-> "a1"]),
      PyDict([k \in {"status"} |-> "ok"]), PyList(<<>>) }

\* json.loads(text): the value text encodes; it raises ValueError on text
\* that encodes nothing
json_decodable(text) == \E v \in JsonDocuments : json_dumps(v) = text

json_loads(text) == CHOOSE v \in JsonDocuments : json_dumps(v) = text

JsonDecodeError == "Expecting value: line 1 column 1 (char 0)"

\* what params.get raises when the decoded params are no dict
AttributeError(type) == "'" \o type \o "' object has no attribute 'get'"

\* gives the bridge after the call, the value returned, and the exception
\* raised instead of returning (None when it returns)
_safe_json_loads(self, json_str) ==
    IF json_decodable(json_str)
    THEN [self |-> self, value |-> json_loads(json_str), raised |-> None]
    ELSE [self |-> _emit_error(self, "JSON parsing error: " \o JsonDecodeError),
          value |-> PyDict(EmptyDict), raised |-> _emit_error_raises(self)]

\* register_action_handler gone wrong: a type that has a handler keeps it
register_action_handler_keeps_first(self, action_type, handler) ==
    IF action_type \in DOMAIN self.action_handlers
    THEN self
    ELSE [self EXCEPT
            !.action_handlers = [t \in DOMAIN @ \cup {action_type} |->
                                    IF t = action_type THEN handler ELSE @[t]],
            !.action_order = Append(@, action_type)]

\* a new key goes to the end of the dict, a key that is there keeps its place
register_action_handler(self, action_type, handler) ==
    [self EXCEPT
        !.action_handlers = [t \in DOMAIN @ \cup {action_type} |->
                                IF t = action_type THEN handler ELSE @[t]],
        !.action_order = IF action_type \in DOMAIN self.action_handlers
                         THEN @ ELSE Append(@, action_type)]

\* list(self._action_handlers.keys()), encoded
get_available_actions(self) == _safe_json_dumps(self, PyStrList(self.action_order))

\* trigger_action_result gone wrong: a result is announced only for an
\* action type that has a handler
trigger_action_result_registered_only(self, action_id, result) ==
    IF action_id \in DOMAIN self.action_handlers
    THEN LET enc == _safe_json_dumps(self, result)
         IN  IF enc.raised # None
             THEN [self |-> enc.self, raised |-> enc.raised]
             ELSE [self |-> emit(enc.self, "action_completed", <<action_id, enc.text>>),
                   raised |-> None]
    ELSE [self |-> _emit_error(self, "No handler registered for action: " \o action_id),
          raised |-> _emit_error_raises(self)]

\* gives the bridge after the call and the exception raised to the caller
trigger_action_result(self, action_id, result) ==
    LET enc == _safe_json_dumps(self, result)
    IN  IF enc.raised # None
        THEN [self |-> enc.self, raised |-> enc.raised]
        ELSE [self |-> emit(enc.self, "action_completed", <<action_id, enc.text>>),
              raised |-> None]

\* execute_action gone wrong: the handler runs before action_requested is
\* emitted
execute_action_requests_late(self, action_type, params_json) ==
    LET dec == _safe_json_loads(self, params_json)
        params == dec.value
        try ==
            IF dec.raised # None
            THEN [self |-> dec.self, raised |-> dec.raised]
            ELSE IF action_type \in DOMAIN dec.self.action_handlers
            THEN LET handler == dec.self.action_handlers[action_type]
                     s1 == [dec.self EXCEPT !.handler_log =
                               Append(@, [handler |-> handler.name, params |-> params,
                                          after |-> Len(dec.self.signals)])]
                     s2 == emit(s1, "action_requested", <<action_type, params_json>>)
                 IN  IF handler.outcome = "raises"
                     THEN [self |-> s1, raised |-> handler.message]
                     ELSE IF params.type # "dict"
                     THEN [self |-> s2, raised |-> AttributeError(params.type)]
                     ELSE LET action_id == dict_get(params.value, "action_id", action_type)
                              enc == _safe_json_dumps(s2, py_or(handler.value,
                                                                PyDict(EmptyDict)))
                          IN  IF enc.raised # None
                              THEN [self |-> enc.self, raised |-> enc.raised]
                              ELSE [self |-> emit(enc.self, "action_completed",
                                                  <<action_id, enc.text>>),
                                    raised |-> None]
            ELSE [self |-> _emit_error(dec.self, "No handler registered for action: "
                                                     \o action_type),
                  raised |-> _emit_error_raises(dec.self)]
    IN  IF try.raised = None
        THEN try
        ELSE [self |-> _emit_error(try.self, "Action execution error: " \o try.raised),
              raised |-> _emit_error_raises(try.self)]

\* execute_action gone wrong: action_requested is emitted before the handler
\* is looked up
execute_action_requests_first(self, action_type, params_json) ==
    LET dec == _safe_json_loads(self, params_json)
        params == dec.value
        s1 == emit(dec.self, "action_requested", <<action_type, params_json>>)
        try ==
            IF dec.raised # None
            THEN [self |-> dec.self, raised |-> dec.raised]
            ELSE IF action_type \in DOMAIN dec.self.action_handlers
            THEN LET handler == dec.self.action_handlers[action_type]
                     s2 == [s1 EXCEPT !.handler_log =
                               Append(@, [handler |-> handler.name, params |-> params,
                                          after |-> Len(s1.signals)])]
                 IN  IF handler.outcome = "raises"
                     THEN [self |-> s2, raised |-> handler.message]
                     ELSE IF params.type # "dict"
                     THEN [self |-> s2, raised |-> AttributeError(params.type)]
                     ELSE LET action_id == dict_get(params.value, "action_id", action_type)
                              enc == _safe_json_dumps(s2, py_or(handler.value,
                                                                PyDict(EmptyDict)))
                          IN  IF enc.raised # None
                              THEN [self |-> enc.self, raised |-> enc.raised]
                              ELSE [self |-> emit(enc.self, "action_completed",
                                                  <<action_id, enc.text>>),
                                    raised |-> None]
            ELSE [self |-> _emit_error(s1, "No handler registered for action: "
                                               \o action_type),
                  raised |-> _emit_error_raises(s1)]
    IN  IF try.raised = None
        THEN try
        ELSE [self |-> _emit_error(try.self, "Action execution error: " \o try.raised),
              raised |-> _emit_error_raises(try.self)]

\* gives the bridge after the call and the exception raised to the caller
execute_action(self, action_type, params_json) ==
    LET dec == _safe_json_loads(self, params_json)
        params == dec.value
        \* the try block: the bridge when it ends, and the exception that ends it
        try ==
            IF dec.raised # None
            THEN [self |-> dec.self, raised |-> dec.raised]
            ELSE IF action_type \in DOMAIN dec.self.action_handlers
            THEN LET handler == dec.self.action_handlers[action_type]
                     s1 == emit(dec.self, "action_requested", <<action_type, params_json>>)
                     s2 == [s1 EXCEPT !.handler_log =
                               Append(@, [handler |-> handler.name, params |-> params,
                                          after |-> Len(s1.signals)])]
                 IN  IF handler.outcome = "raises"
                     THEN [self |-> s2, raised |-> handler.message]
                     ELSE IF params.type # "dict"
                     THEN [self |-> s2, raised |-> AttributeError(params.type)]
                     ELSE LET action_id == dict_get(params.value, "action_id", action_type)
                              enc == _safe_json_dumps(s2, py_or(handler.value,
                                                                PyDict(EmptyDict)))
                          IN  IF enc.raised # None
                              THEN [self |-> enc.self, raised |-> enc.raised]
                              ELSE [self |-> emit(enc.self, "action_completed",
                                                  <<action_id, enc.text>>),
                                    raised |-> None]
            ELSE [self |-> _emit_error(dec.self, "No handler registered for action: "
                                                     \o action_type),
                  raised |-> _emit_error_raises(dec.self)]
    IN  IF try.raised = None
        THEN try
        ELSE \* except Exception as e
             [self |-> _emit_error(try.self, "Action execution error: " \o try.raised),
              raised |-> _emit_error_raises(try.self)]

-----------------------------------------------------------------------------
(* The state machine of an ActionBridge *)

\* the bridge object when a call starts
ActionSelf ==
    [action_handlers |-> action_handlers, action_order |-> action_order,
     error_callback |-> error_callback,
     signals |-> <<>>, callback_log |-> <<>>, handler_log |-> <<>>]

\* the call ends with a result: the bridge object becomes the state
ActionReturns(self, result, exception, the_call) ==
    /\ action_handlers' = self.action_handlers
    /\ error_callback' = self.error_callback
    /\ signals' = self.signals
    /\ callback_log' = self.callback_log
    /\ action_order' = self.action_order
    /\ handler_log' = self.handler_log
    /\ raised' = exception
    /\ ret' = result
    /\ call' = the_call
    /\ UNCHANGED <<heap, items, items_by_id, loaded, before_add>>
    /\ UNCHANGED view_vars
    /\ UNCHANGED thread_vars

\* the call ends and returns None, or raises
ActionReturn(self, exception, the_call) ==
    ActionReturns(self, NoReturn, exception, the_call)

SetErrorCallback ==
    \E callback \in ReturningCallbacks :
        ActionReturn(set_error_callback(ActionSelf, callback), None,
                     [op |-> "set_error_callback", callback |-> callback])

SetRaisingErrorCallback ==
    \E callback \in RaisingCallbacks :
        ActionReturn(set_error_callback(ActionSelf, callback), None,
                     [op |-> "set_error_callback", callback |-> callback])

RegisterActionHandler ==
    \E action_type \in ActionTypes, handler \in Handlers :
        ActionReturn(register_action_handler(ActionSelf, action_type, handler), None,
                     [op |-> "register_action_handler", action_type |-> action_type,
                      handler |-> handler.name])

ExecuteAction ==
    \E action_type \in ActionTypes, params_json \in ParamsTexts :
        LET r == execute_action(ActionSelf, action_type, params_json)
        IN  ActionReturn(r.self, r.raised,
                         [op |-> "execute_action", action_type |-> action_type,
                          params_json |-> params_json])

\* error callbacks that return
ActionNext ==
    \/ SetErrorCallback
    \/ RegisterActionHandler
    \/ ExecuteAction

ActionSpec == Init /\ [][ActionNext]_vars

\* error callbacks that may raise as well
ActionFaultNext ==
    \/ SetErrorCallback
    \/ SetRaisingErrorCallback
    \/ RegisterActionHandler
    \/ ExecuteAction

ActionFaultSpec == Init /\ [][ActionFaultNext]_vars

-----------------------------------------------------------------------------
(* Action dispatch *)

\* the params execute_action hands to the handler
DecodedParams(params_json) ==
    IF json_decodable(params_json) THEN json_loads(params_json) ELSE PyDict(EmptyDict)

\* the last call was execute_action for a type whose handler returns
ExecutedReturningHandler ==
    /\ call.op = "execute_action"
    /\ call.action_type \in DOMAIN action_handlers
    /\ action_handlers[call.action_type].outcome = "returns"

\* one action_requested with the type and the raw params, then one handler
\* invocation with the decoded params, then one action_completed, no other
\* signal, and the call returns
RequestedInvokedCompleted ==
    /\ Len(signals) = 2
    /\ signals[1] = Signal("action_requested", <<call.action_type, call.params_json>>)
    /\ signals[2].signal = "action_completed"
    /\ Len(handler_log) = 1
    /\ handler_log[1].handler = action_handlers[call.action_type].name
    /\ handler_log[1].params = DecodedParams(call.params_json)
    /\ handler_log[1].after = 1
    /\ raised = None

\* C11 as stated: execute_action for a type whose handler returns gives one
\* action_requested, then one handler invocation, then one
\* action_completed, and no error_occurred.
C11_ExecuteRegistered ==
    ExecutedReturningHandler => RequestedInvokedCompleted

\* C11 as amended: the same, when params_json is the encoding of a JSON
\* object and the value the handler returns is one json.dumps encodes.
C11_ExecuteRegisteredWellFormed ==
    ( /\ ExecutedReturningHandler
      /\ json_decodable(call.params_json)
      /\ json_loads(call.params_json).type = "dict"
      /\ action_handlers[call.action_type].value.type # "object" )
    => RequestedInvokedCompleted

C11_Witness ==
    /\ ExecutedReturningHandler
    /\ call.params_json = "{\"action_id\": \"a1\"}"
    /\ action_handlers[call.action_type].name = "h_ok"
    /\ error_callback = "cb_returns"
    /\ RequestedInvokedCompleted
    /\ signals[2] = Signal("action_completed", <<"a1", "{\"status\": \"ok\"}">>)

\* C12: the action_completed signal of execute_action(t, params) is keyed by
\* the action_id of the decoded params, or by t when they carry none, and
\* carries the encoding of the value the handler returned, or the encoded
\* empty object when the handler returned None.
C12_CompletionKeyAndPayload ==
    (call.op = "execute_action") =>
        \A n \in 1..Len(signals) :
            signals[n].signal = "action_completed" =>
                LET params == DecodedParams(call.params_json)
                    decoded == IF params.type = "dict" THEN params.value ELSE EmptyDict
                    result == action_handlers[call.action_type].value
                IN  /\ signals[n].args[1] =
                          IF "action_id" \in DOMAIN decoded
                          THEN decoded["action_id"] ELSE call.action_type
                    /\ result.type = "NoneType" => signals[n].args[2] = "{}"
                    /\ result.type \in {"dict", "list"} =>
                          signals[n].args[2] = json_dumps(result)

NoHandlerError(action_type) ==
    Signal("error_occurred", <<"No handler registered for action: " \o action_type>>)

C14_HandlerFailureCaptured ==
    ( /\ call.op = "execute_action"
      /\ Len(handler_log) = 1
      /\ action_handlers[call.action_type].outcome = "raises" )
    => /\ raised = None
       /\ \E n \in 1..Len(signals) :
             /\ signals[n].signal = "error_occurred"
             /\ str_contains(action_handlers[call.action_type].message,
                             signals[n].args[1])
       /\ \A n \in 1..Len(signals) : signals[n].signal # "action_completed"

-----------------------------------------------------------------------------
(* CleanWebView.  An operator takes the widget `self` (a record of its      *)
(* fields, the file system it reads and writes, and the signals, engine     *)
(* requests and callback invocations of the call so far) and gives the      *)
(* widget after the call.                                                   *)

MaxCallbacks == 2
MaxLoads == 2

\* The content roots an application configures and the development file it
\* names under them
Roots == {"A", "B"}
DevHtmls == {None, "dev.html"}

\* Path(content_path) / name
path_join(content_path, name) == content_path \o "/" \o name

\* The files that can exist under the roots
Files == { path_join("A", "index.html"), path_join("A", "dev.html"),
           path_join("B", "index.html") }

\* The inline HTML an application sets
HtmlContents == {"", "<h1>dev</h1>"}

\* Path(__file__).parent / "temp" / "webview_content.html"
TempFile == "temp/webview_content.html"

\* what open(temp_file, "w") raises in a directory that cannot be written
PermissionError == "[Errno 13] Permission denied: '" \o TempFile \o "'"

\* The load callbacks an application registers: one that returns and one
\* that raises an Exception
LoadCallbacks ==
    { [name |-> "on_load", outcome |-> "returns", message |-> ""],
      [name |-> "on_load_raises", outcome |-> "raises", message |-> "boom"] }

\* file_path.exists()
exists(self, file_path) == file_path \in self.disk

set_web_content(self, content_path, dev_html) ==
    LET s1 == [self EXCEPT !.web_content_path = content_path]
    IN  IF truthy(dev_html)
        THEN [s1 EXCEPT !.dev_html_path = path_join(content_path, dev_html)]
        ELSE s1

set_dev_html_content(self, html_content) ==
    [self EXCEPT !.dev_html_content = html_content]

add_load_callback(self, callback) ==
    [self EXCEPT !.load_callbacks = Append(@, callback)]

\* gives the widget after the call and the exception raised (None: returned)
_load_file(self, file_path) ==
    [self |-> [self EXCEPT !.engine_requests = Append(@, file_path),
                           !.loading = @ + 1,
                           !.in_flight = Append(@, "load")],
     raised |-> None]

\* _load_html_content gone wrong: the engine is handed the temp file before
\* the file is written
_load_html_content_loads_first(self, html_content) ==
    IF self.temp_writable
    THEN _load_file([self EXCEPT !.temp_file = html_content], TempFile)
    ELSE [self |-> _load_file(self, TempFile).self, raised |-> PermissionError]

\* _load_html_content gone wrong: a temp file that exists is not written
\* again
_load_html_content_keeps_file(self, html_content) ==
    IF self.temp_writable
    THEN _load_file([self EXCEPT !.temp_file =
                         IF @ = None THEN html_content ELSE @], TempFile)
    ELSE [self |-> self, raised |-> PermissionError]

_load_html_content(self, html_content) ==
    IF self.temp_writable
    THEN _load_file([self EXCEPT !.temp_file = html_content], TempFile)
    ELSE [self |-> self, raised |-> PermissionError]

NoContent == "No web content available to load"

\* the try block of load_content gone wrong: the development file is tried
\* before the production build
load_content_try_dev_first(self) ==
    IF self.dev_html_path # None /\ exists(self, self.dev_html_path)
    THEN _load_file(self, self.dev_html_path)
    ELSE IF /\ self.web_content_path # None
            /\ exists(self, path_join(self.web_content_path, "index.html"))
    THEN _load_file(self, path_join(self.web_content_path, "index.html"))
    ELSE IF truthy(self.dev_html_content)
    THEN _load_html_content(self, self.dev_html_content)
    ELSE [self |-> self, raised |-> NoContent]

\* the try block of load_content gone wrong: the inline HTML is tried before
\* the development file
load_content_try_inline_first(self) ==
    IF /\ self.web_content_path # None
       /\ exists(self, path_join(self.web_content_path, "index.html"))
    THEN _load_file(self, path_join(self.web_content_path, "index.html"))
    ELSE IF truthy(self.dev_html_content)
    THEN _load_html_content(self, self.dev_html_content)
    ELSE IF self.dev_html_path # None /\ exists(self, self.dev_html_path)
    THEN _load_file(self, self.dev_html_path)
    ELSE [self |-> self, raised |-> NoContent]

\* the try block of load_content: the widget after it and the exception that
\* leaves it (None when it returns)
load_content_try(self) ==
    IF /\ self.web_content_path # None
       /\ exists(self, path_join(self.web_content_path, "index.html"))
    THEN _load_file(self, path_join(self.web_content_path, "index.html"))
    ELSE IF self.dev_html_path # None /\ exists(self, self.dev_html_path)
    THEN _load_file(self, self.dev_html_path)
    ELSE IF truthy(self.dev_html_content)
    THEN _load_html_content(self, self.dev_html_content)
    ELSE [self |-> self, raised |-> NoContent]

\* load_content gone wrong: a load that is still in flight makes the call a
\* no-op
load_content_once_in_flight(self) ==
    IF self.loading > 0
    THEN [self |-> self, raised |-> None]
    ELSE LET try == load_content_try(self)
         IN  IF try.raised = None
             THEN try
             ELSE [self |-> emit(try.self, "content_failed", <<try.raised>>),
                   raised |-> None]

\* load_content gone wrong: the exception is not caught
load_content_uncaught(self) ==
    load_content_try(self)

\* gives the widget after the call and the exception raised to the caller
load_content(self) ==
    LET try == load_content_try(self)
    IN  IF try.raised = None
        THEN try
        ELSE [self |-> emit(try.self, "content_failed", <<try.raised>>),
              raised |-> None]

\* callback(), inside its try: the invocation is logged with the number of
\* signals emitted before it and, when it raised, the line printed
call_load_callback(self, callback) ==
    [self EXCEPT !.load_callback_log =
        Append(@, [callback |-> callback.name,
                   after |-> Len(self.signals),
                   printed |-> IF callback.outcome = "raises"
                               THEN "WebView load callback error: " \o callback.message
                               ELSE None])]

\* `for callback in self._load_callbacks` from position i on
RECURSIVE for_load_callbacks(_, _)
for_load_callbacks(self, i) ==
    IF i > Len(self.load_callbacks)
    THEN self
    ELSE for_load_callbacks(call_load_callback(self, self.load_callbacks[i]), i + 1)

\* the loop gone wrong: a callback that raises ends it
RECURSIVE for_load_callbacks_until_raise(_, _)
for_load_callbacks_until_raise(self, i) ==
    IF i > Len(self.load_callbacks)
    THEN self
    ELSE IF self.load_callbacks[i].outcome = "raises"
    THEN call_load_callback(self, self.load_callbacks[i])
    ELSE for_load_callbacks_until_raise(
             call_load_callback(self, self.load_callbacks[i]), i + 1)

LoadFailed == "WebView failed to load content"

\* _on_load_finished gone wrong: a callback that raises ends the loop
_on_load_finished_until_raise(self, success) ==
    IF success
    THEN for_load_callbacks_until_raise(
             emit(emit(self, "content_loaded", <<>>), "bridge_ready", <<>>), 1)
    ELSE emit(self, "content_failed", <<LoadFailed>>)

\* _on_load_finished gone wrong: bridge_ready is emitted whatever the engine
\* reports
_on_load_finished_always_ready(self, success) ==
    IF success
    THEN for_load_callbacks(
             emit(emit(self, "content_loaded", <<>>), "bridge_ready", <<>>), 1)
    ELSE emit(emit(self, "bridge_ready", <<>>), "content_failed", <<LoadFailed>>)

\* _on_load_finished gone wrong: the callbacks are dropped once they have
\* run
_on_load_finished_one_shot(self, success) ==
    IF success
    THEN [for_load_callbacks(
              emit(emit(self, "content_loaded", <<>>), "bridge_ready", <<>>), 1)
          EXCEPT !.load_callbacks = <<>>]
    ELSE emit(self, "content_failed", <<LoadFailed>>)

_on_load_finished(self, success) ==
    IF success
    THEN for_load_callbacks(
             emit(emit(self, "content_loaded", <<>>), "bridge_ready", <<>>), 1)
    ELSE emit(self, "content_failed", <<LoadFailed>>)

\* web_view.reload(): the engine loads its current page again
reload_content(self) ==
    [self EXCEPT !.loading = @ + 1, !.in_flight = Append(@, "reload")]

-----------------------------------------------------------------------------
(* The state machine of one CleanWebView, its engine and its file system *)

ViewSelf ==
    [web_content_path |-> web_content_path, dev_html_path |-> dev_html_path,
     dev_html_content |-> dev_html_content, load_callbacks |-> load_callbacks,
     disk |-> disk, temp_writable |-> temp_writable, temp_file |-> temp_file,
     loading |-> loading, in_flight |-> in_flight,
     signals |-> <<>>, engine_requests |-> <<>>,
     load_callback_log |-> <<>>, bridge_objects |-> bridge_objects,
     channel_objects |-> channel_objects, last_registered |-> last_registered]

\* the call ends with a result: the widget becomes the state
ViewAssigns(self, result, exception, the_call) ==
    /\ web_content_path' = self.web_content_path
    /\ dev_html_path' = self.dev_html_path
    /\ dev_html_content' = self.dev_html_content
    /\ load_callbacks' = self.load_callbacks
    /\ disk' = self.disk
    /\ temp_writable' = self.temp_writable
    /\ temp_file' = self.temp_file
    /\ loading' = self.loading
    /\ in_flight' = self.in_flight
    /\ signals' = self.signals
    /\ engine_requests' = self.engine_requests
    /\ load_callback_log' = self.load_callback_log
    /\ bridge_objects' = self.bridge_objects
    /\ channel_objects' = self.channel_objects
    /\ last_registered' = self.last_registered
    /\ raised' = exception
    /\ ret' = result
    /\ call' = the_call
    /\ UNCHANGED <<heap, items, items_by_id, error_callback, callback_log,
                   loaded, before_add, action_handlers, action_order,
                   handler_log>>

ViewReturns(self, result, exception, the_call) ==
    /\ ViewAssigns(self, result, exception, the_call)
    /\ UNCHANGED thread_vars

\* the call ends and returns None
ViewReturn(self, exception, the_call) ==
    ViewReturns(self, NoReturn, exception, the_call)

SetWebContent ==
    \E content_path \in Roots, dev_html \in DevHtmls :
        ViewReturn(set_web_content(ViewSelf, content_path, dev_html), None,
                   [op |-> "set_web_content", content_path |-> content_path,
                    dev_html |-> dev_html])

SetDevHtmlContent ==
    \E html_content \in HtmlContents :
        ViewReturn(set_dev_html_content(ViewSelf, html_content), None,
                   [op |-> "set_dev_html_content", html_content |-> html_content])

AddLoadCallback ==
    /\ Len(load_callbacks) < MaxCallbacks
    /\ \E callback \in LoadCallbacks :
          ViewReturn(add_load_callback(ViewSelf, callback), None,
                     [op |-> "add_load_callback", callback |-> callback.name])

LoadContent ==
    /\ loading < MaxLoads
    /\ LET r == load_content(ViewSelf)
       IN  ViewReturn(r.self, r.raised, [op |-> "load_content"])

\* the engine completes a load and emits loadFinished(success), which is
\* connected to _on_load_finished
OnLoadFinished ==
    /\ loading > 0
    /\ \E success \in BOOLEAN :
          ViewReturn(_on_load_finished([ViewSelf EXCEPT !.loading = @ - 1,
                                                        !.in_flight = Tail(@)],
                                       success),
                     None, [op |-> "_on_load_finished", success |-> success,
                            request |-> Head(in_flight)])

ReloadContent ==
    /\ loading < MaxLoads
    /\ ViewReturn(reload_content(ViewSelf), None, [op |-> "reload_content"])

\* the file system changes under the application
CreateFile ==
    \E file \in Files \ disk :
        ViewReturn([ViewSelf EXCEPT !.disk = @ \cup {file}], None,
                   [op |-> "create_file", file |-> file])

DeleteFile ==
    \E file \in disk :
        ViewReturn([ViewSelf EXCEPT !.disk = @ \ {file}], None,
                   [op |-> "delete_file", file |-> file])

ChangeTempPermission ==
    ViewReturn([ViewSelf EXCEPT !.temp_writable = ~@], None,
               [op |-> "chmod_temp", writable |-> ~temp_writable])

ViewNext ==
    \/ SetWebContent
    \/ SetDevHtmlContent
    \/ AddLoadCallback
    \/ LoadContent
    \/ ReloadContent
    \/ OnLoadFinished
    \/ CreateFile
    \/ DeleteFile
    \/ ChangeTempPermission

ViewSpec == Init /\ [][ViewNext]_vars

-----------------------------------------------------------------------------
(* Content resolution *)

\* the production entry file of the configured root is on disk
ProductionExists ==
    /\ web_content_path # None
    /\ path_join(web_content_path, "index.html") \in disk

\* the configured development file is on disk
DevFileExists == dev_html_path # None /\ dev_html_path \in disk

\* C15: when a content root is configured and its index.html is on disk,
\* load_content hands exactly that file to the engine, whatever development
\* file exists and whatever inline HTML is set.
C15_ProductionFirst ==
    (call.op = "load_content" /\ ProductionExists) =>
        /\ engine_requests = <<path_join(web_content_path, "index.html")>>
        /\ signals = <<>>
        /\ raised = None

C15_Witness ==
    /\ call.op = "load_content"
    /\ web_content_path = "A"
    /\ dev_html_path = path_join("A", "dev.html")
    /\ {path_join("A", "index.html"), path_join("A", "dev.html")} \subseteq disk
    /\ truthy(dev_html_content)
    /\ engine_requests = <<path_join("A", "index.html")>>

\* C16: when the production entry file is not on disk and the configured
\* development file is, load_content hands the development file to the
\* engine, also when inline HTML is set; the inline HTML is handed over
\* only when neither file is on disk.
C16_DevFileBeforeInline ==
    (call.op = "load_content") =>
        /\ (~ProductionExists /\ DevFileExists) =>
              /\ engine_requests = <<dev_html_path>>
              /\ signals = <<>>
        /\ (\E n \in 1..Len(engine_requests) : engine_requests[n] = TempFile) =>
              ~ProductionExists /\ ~DevFileExists

C16_Witness ==
    /\ call.op = "load_content"
    /\ ~ProductionExists
    /\ DevFileExists
    /\ truthy(dev_html_content)
    /\ temp_writable
    /\ engine_requests = <<dev_html_path>>

\* C17: with neither the production entry file nor the development file on
\* disk, load_content writes whatever inline HTML was set to the temp file,
\* hands that file to the engine and emits no content_failed.
C17_InlineLoaded ==
    ( /\ call.op = "load_content"
      /\ ~ProductionExists
      /\ ~DevFileExists
      /\ dev_html_content # None )
    => /\ engine_requests = <<TempFile>>
       /\ temp_file = dev_html_content
       /\ signals = <<>>

\* C18: when no production entry file, no development file and no inline
\* HTML is available, load_content makes no engine request, emits one
\* content_failed, with the same reason every time, and returns.
C18_NoContent ==
    ( /\ call.op = "load_content"
      /\ ~ProductionExists
      /\ ~DevFileExists
      /\ dev_html_content = None )
    => /\ engine_requests = <<>>
       /\ signals = <<Signal("content_failed", <<NoContent>>)>>
       /\ raised = None

C18_Witness ==
    /\ call.op = "load_content"
    /\ web_content_path = "B"
    /\ dev_html_path = path_join("B", "dev.html")
    /\ disk = {path_join("A", "index.html"), path_join("A", "dev.html")}
    /\ dev_html_content = None
    /\ loading = 1
    /\ engine_requests = <<>>
    /\ signals = <<Signal("content_failed", <<NoContent>>)>>

-----------------------------------------------------------------------------
(* Engine completions *)

\* C19: on a completion reporting success the widget emits content_loaded,
\* then bridge_ready, then invokes every registered load callback in
\* registration order; a callback that raises is caught and the later ones
\* are still invoked.
C19_SuccessCompletion ==
    (call.op = "_on_load_finished" /\ call.success) =>
        /\ signals = <<Signal("content_loaded", <<>>), Signal("bridge_ready", <<>>)>>
        /\ Len(load_callback_log) = Len(load_callbacks)
        /\ \A i \in 1..Len(load_callbacks) :
              /\ load_callback_log[i].callback = load_callbacks[i].name
              /\ load_callback_log[i].after = 2
        /\ raised = None

C19_Witness ==
    /\ call.op = "_on_load_finished"
    /\ call.success
    /\ Len(load_callbacks) = 2
    /\ load_callbacks[1].outcome = "raises"
    /\ load_callbacks[2].outcome = "returns"
    /\ Len(load_callback_log) = 2
    /\ load_callback_log[1].printed = "WebView load callback error: boom"
    /\ load_callback_log[2].callback = "on_load"

\* C20: on a completion reporting failure the widget emits one
\* content_failed with a fixed reason, neither content_loaded nor
\* bridge_ready, and invokes no load callback.
C20_FailureCompletion ==
    (call.op = "_on_load_finished" /\ ~call.success) =>
        /\ signals = <<Signal("content_failed", <<LoadFailed>>)>>
        /\ load_callback_log = <<>>
        /\ raised = None

C20_Witness ==
    /\ call.op = "_on_load_finished"
    /\ ~call.success
    /\ Len(load_callbacks) = 2
    /\ signals = <<Signal("content_failed", <<LoadFailed>>)>>
    /\ load_callback_log = <<>>

-----------------------------------------------------------------------------
(* Re-entrant loads *)

\* load_content finds a source it can hand to the engine
ResolutionSucceeds ==
    \/ ProductionExists
    \/ DevFileExists
    \/ truthy(dev_html_content) /\ temp_writable

\* C21: whatever loads are in flight or have completed, every load_content
\* call that finds a source makes one engine request of its own, which adds
\* to the loads in flight, and emits nothing.
C21_LoadReentrant ==
    [][ (call'.op = "load_content" /\ ResolutionSucceeds) =>
          /\ Len(engine_requests') = 1
          /\ loading' = loading + 1
          /\ signals' = <<>>
          /\ raised' = None
      ]_vars

\* two load_content calls with no completion between them: two requests
C21_Witness ==
    /\ call.op = "load_content"
    /\ loading = 2
    /\ Len(engine_requests) = 1

-----------------------------------------------------------------------------
(* Bridge object registry of CleanWebView *)

\* The names and the QObjects an application registers
BridgeNames == {"data", "actions"}
BridgeObjects == {"obj1", "obj2"}

\* d[key] = value
dict_set(d, key, value) ==
    [k \in DOMAIN d \cup {key} |-> IF k = key THEN value ELSE d[k]]

\* register_bridge_object gone wrong: a name that is taken keeps its object
register_bridge_object_keeps_first(self, name, obj) ==
    IF name \in DOMAIN self.bridge_objects
    THEN self
    ELSE [self EXCEPT !.bridge_objects = dict_set(@, name, obj),
                      !.channel_objects = dict_set(@, name, obj)]

\* web_channel.registerObject(name, obj) stores obj under name
register_bridge_object(self, name, obj) ==
    [self EXCEPT !.bridge_objects = dict_set(@, name, obj),
                 !.channel_objects = dict_set(@, name, obj)]

get_bridge_object(self, name) == dict_get(self.bridge_objects, name, None)

\* clear_bridge_objects gone wrong: the channel is cleared as well
clear_bridge_objects_and_channel(self) ==
    [self EXCEPT !.bridge_objects = [n \in {} |-> 0],
                 !.channel_objects = [n \in {} |-> 0]]

clear_bridge_objects(self) ==
    [self EXCEPT !.bridge_objects = [n \in {} |-> 0]]

RegisterBridgeObject ==
    \E name \in BridgeNames, obj \in BridgeObjects :
        ViewReturn([register_bridge_object(ViewSelf, name, obj)
                        EXCEPT !.last_registered = dict_set(@, name, obj)],
                   None,
                   [op |-> "register_bridge_object", name |-> name, obj |-> obj])

GetBridgeObject ==
    \E name \in BridgeNames :
        ViewReturns(ViewSelf, get_bridge_object(ViewSelf, name), None,
                    [op |-> "get_bridge_object", name |-> name])

ClearBridgeObjects ==
    ViewReturn([clear_bridge_objects(ViewSelf)
                    EXCEPT !.last_registered = [n \in {} |-> 0]],
               None, [op |-> "clear_bridge_objects"])

\* the registry operations, with the configuration operations they must
\* leave alone
RegistryNext ==
    \/ RegisterBridgeObject
    \/ GetBridgeObject
    \/ ClearBridgeObjects
    \/ SetWebContent
    \/ SetDevHtmlContent
    \/ AddLoadCallback

RegistrySpec == Init /\ [][RegistryNext]_vars

\* C22: get_bridge_object(n) returns the object of the last
\* register_bridge_object(n, .) since the last clear_bridge_objects, or
\* None, without raising, when there is none; register_bridge_object(n, b)
\* sets the local entry and the channel entry of n to b and changes no
\* other entry.
C22_RegisterGetClear ==
    [][ /\ (call'.op = "get_bridge_object") =>
              /\ ret' = dict_get(last_registered, call'.name, None)
              /\ raised' = None
        /\ (call'.op = "register_bridge_object") =>
              /\ bridge_objects' = dict_set(bridge_objects, call'.name, call'.obj)
              /\ channel_objects' = dict_set(channel_objects, call'.name, call'.obj)
      ]_vars

\* a name registered twice and another registered once: get gives the later
\* object
C22_Witness ==
    /\ call.op = "get_bridge_object"
    /\ call.name = "data"
    /\ ret = "obj2"
    /\ bridge_objects = [n \in BridgeNames |-> IF n = "data" THEN "obj2" ELSE "obj1"]
    /\ channel_objects = bridge_objects

\* C23: clear_bridge_objects empties the local map, so that
\* get_bridge_object gives None for every name, and leaves the channel's
\* registrations, the content configuration and the load callbacks as they
\* were.
C23_ClearLocalOnly ==
    [][ (call'.op = "clear_bridge_objects") =>
          /\ \A n \in BridgeNames : get_bridge_object(ViewSelf', n) = None
          /\ DOMAIN bridge_objects' = {}
          /\ channel_objects' = channel_objects
          /\ web_content_path' = web_content_path
          /\ dev_html_path' = dev_html_path
          /\ dev_html_content' = dev_html_content
          /\ load_callbacks' = load_callbacks
      ]_vars

C23_Witness ==
    /\ call.op = "clear_bridge_objects"
    /\ DOMAIN bridge_objects = {}
    /\ DOMAIN channel_objects = BridgeNames
    /\ web_content_path # None
    /\ dev_html_content # None
    /\ Len(load_callbacks) > 0

-----------------------------------------------------------------------------
(* Adding items and re-broadcasting the list *)

\* C24: add_item(item) for an item without an id field leaves the list, the
\* index and the records as they were and emits no signal.
C24_AddItemWithoutId ==
    [][ (call'.op = "add_item" /\ "id" \notin DOMAIN call'.item) =>
          /\ UNCHANGED <<heap, items, items_by_id>>
          /\ signals' = <<>>
          /\ callback_log' = <<>>
      ]_vars

C24_Witness ==
    /\ call.op = "add_item"
    /\ "id" \notin DOMAIN call.item
    /\ Len(items) = 1
    /\ DOMAIN items_by_id = {"a"}
    /\ signals = <<>>

\* C25: add_item(item) for an item with an id appends the item at the end
\* of the list, indexes it under its id, and emits item_updated with the id
\* and the encoding of the item, then items_loaded and data_updated with the
\* encoding of the new list.
C25_AddItemWithId ==
    [][ (call'.op = "add_item" /\ "id" \in DOMAIN call'.item) =>
          LET id == call'.item["id"]
              new_list == Append(deref(heap, items), call'.item)
          IN  /\ deref(heap', items') = new_list
              /\ id \in DOMAIN items_by_id'
              /\ items_by_id'[id] = items'[Len(items')]
              /\ signals' = << Signal("item_updated", <<id, dumps_dict(call'.item)>>),
                               Signal("items_loaded", <<dumps_list(new_list)>>),
                               Signal("data_updated", <<dumps_list(new_list)>>) >>
      ]_vars

\* the positions of the signals named name in a sequence of signals
SignalsNamed(emitted, name) ==
    { n \in 1..Len(emitted) : emitted[n].signal = name }

\* C26: set_items, and add_item and remove_item when they re-broadcast,
\* emit one items_loaded and then one data_updated, both with the text
\* get_all_items returns in the state the signals are emitted in.
C26_Rebroadcast ==
    [][ ( \/ call'.op = "set_items"
          \/ call'.op = "add_item" /\ "id" \in DOMAIN call'.item
          \/ call'.op = "remove_item" /\ call'.item_id \in DOMAIN items_by_id ) =>
          LET after == [heap |-> heap', items |-> items',
                        items_by_id |-> items_by_id',
                        error_callback |-> error_callback',
                        signals |-> <<>>, callback_log |-> <<>>]
              payload == get_all_items(after).text
          IN  /\ Cardinality(SignalsNamed(signals', "items_loaded")) = 1
              /\ Cardinality(SignalsNamed(signals', "data_updated")) = 1
              /\ Len(signals') >= 2
              /\ signals'[Len(signals') - 1] = Signal("items_loaded", <<payload>>)
              /\ signals'[Len(signals')] = Signal("data_updated", <<payload>>)
      ]_vars

C26_Witness ==
    /\ call.op = "remove_item"
    /\ Len(items) = 1
    /\ signals = << Signal("items_loaded", <<dumps_list(deref(heap, items))>>),
                    Signal("data_updated", <<dumps_list(deref(heap, items))>>) >>

-----------------------------------------------------------------------------
(* The error channel and the JSON helpers of every bridge *)

\* gives the bridge after the call and the exception raised to the caller
handle_error(self, error_message) ==
    [self |-> _emit_error(self, "JavaScript error: " \o error_message),
     raised |-> _emit_error_raises(self)]

\* The messages the page reports
ErrorMessages == {"x is undefined", ""}

\* The data handed to _safe_json_dumps
JsonData ==
    { PyDict(EmptyDict), PyDict([k \in {"status"} |-> "ok"]), PyList(<<>>),
      PyTuple(<<>>), PyObject }

\* The texts handed to _safe_json_loads
JsonTexts == ParamsTexts \cup {"{\"status\": \"ok\"}"}

HandleError ==
    \E error_message \in ErrorMessages :
        LET r == handle_error(ActionSelf, error_message)
        IN  ActionReturn(r.self, r.raised,
                         [op |-> "handle_error", error_message |-> error_message])

SafeJsonDumps ==
    \E data \in JsonData :
        LET r == _safe_json_dumps(ActionSelf, data)
        IN  ActionReturns(r.self, IF r.raised = None THEN r.text ELSE NoReturn,
                          r.raised, [op |-> "_safe_json_dumps", data |-> data])

SafeJsonLoads ==
    \E json_str \in JsonTexts :
        LET r == _safe_json_loads(ActionSelf, json_str)
        IN  ActionReturns(r.self, IF r.raised = None THEN r.value ELSE NoReturn,
                          r.raised, [op |-> "_safe_json_loads", json_str |-> json_str])

GetAvailableActions ==
    LET r == get_available_actions(ActionSelf)
    IN  ActionReturns(r.self, IF r.raised = None THEN r.text ELSE NoReturn,
                      r.raised, [op |-> "get_available_actions"])

\* The ids and the results an application announces by hand
ActionIds == {"a1", "save"}
ActionResults == { PyDict(EmptyDict), PyDict([k \in {"status"} |-> "ok"]), PyObject }

TriggerActionResult ==
    \E action_id \in ActionIds, result \in ActionResults :
        LET r == trigger_action_result(ActionSelf, action_id, result)
        IN  ActionReturn(r.self, r.raised,
                         [op |-> "trigger_action_result", action_id |-> action_id,
                          result |-> result])

\* every operation of an ActionBridge, with error callbacks that return and
\* error callbacks that raise
BridgeNext ==
    \/ ActionFaultNext
    \/ HandleError
    \/ SafeJsonDumps
    \/ SafeJsonLoads
    \/ GetAvailableActions
    \/ TriggerActionResult

BridgeSpec == Init /\ [][BridgeNext]_vars

\* C27: the callback a bridge holds is the one of the last
\* set_error_callback; every error_occurred signal is followed by one
\* invocation of that callback, with the message of the signal, and no
\* other callback is invoked; with no callback set there is no invocation;
\* handle_error emits one error_occurred.
C27_OneErrorCallback ==
    [][ /\ (call'.op = "set_error_callback") => error_callback' = call'.callback
        /\ (call'.op # "set_error_callback") => error_callback' = error_callback
        /\ LET errors == SignalsNamed(signals', "error_occurred")
           IN  IF error_callback' = None
               THEN callback_log' = <<>>
               ELSE /\ Len(callback_log') = Cardinality(errors)
                    /\ \A i \in 1..Len(callback_log') :
                          /\ callback_log'[i].callback = error_callback'
                          /\ callback_log'[i].after \in errors
                          /\ callback_log'[i].message =
                                signals'[callback_log'[i].after].args[1]
                          /\ \A j \in 1..(i - 1) :
                                callback_log'[j].after < callback_log'[i].after
        /\ (call'.op = "handle_error") =>
              signals' = << Signal("error_occurred",
                                   <<"JavaScript error: " \o call'.error_message>>) >>
      ]_vars

C27_Witness ==
    /\ call.op = "handle_error"
    /\ call.error_message = "x is undefined"
    /\ error_callback = "cb_returns"
    /\ callback_log = << [callback |-> "cb_returns",
                          message |-> "JavaScript error: x is undefined",
                          after |-> 1] >>

\* C28: _safe_json_dumps and _safe_json_loads return to their caller.  For
\* data json.dumps cannot encode, _safe_json_dumps returns "{}" and emits
\* one error_occurred; for text json.loads cannot decode, _safe_json_loads
\* returns {} and emits one error_occurred.  Otherwise they emit nothing
\* and json.loads of the text json.dumps gives for a value is that value.
C28_JsonHelpers ==
    /\ (call.op = "_safe_json_dumps") =>
          /\ raised = None
          /\ IF json_encodable(call.data)
             THEN /\ signals = <<>>
                  /\ ret = json_dumps(call.data)
                  /\ json_loads(ret) = call.data
             ELSE /\ ret = "{}"
                  /\ Len(signals) = 1
                  /\ signals[1].signal = "error_occurred"
    /\ (call.op = "_safe_json_loads") =>
          /\ raised = None
          /\ IF json_decodable(call.json_str)
             THEN /\ signals = <<>>
                  /\ json_dumps(ret) = call.json_str
             ELSE /\ ret = PyDict(EmptyDict)
                  /\ Len(signals) = 1
                  /\ signals[1].signal = "error_occurred"

-----------------------------------------------------------------------------
(* The handler registry of an ActionBridge *)

\* the sequences that list every element of S once
Listings(S) ==
    { s \in [1..Cardinality(S) -> S] : \A i, j \in DOMAIN s : s[i] = s[j] => i = j }

\* C29: register_action_handler(t, h) makes h the handler of t, without an
\* error when t has one, and changes no other entry; no other operation
\* changes the registry; get_available_actions returns the encoding of a
\* list of the registered types, each once; execute_action(t, .) invokes no
\* handler but the one registered last for t.
C29_HandlerRegistry ==
    [][ /\ (call'.op = "register_action_handler") =>
              /\ DOMAIN action_handlers' = DOMAIN action_handlers \cup {call'.action_type}
              /\ action_handlers'[call'.action_type].name = call'.handler
              /\ \A t \in DOMAIN action_handlers \ {call'.action_type} :
                    action_handlers'[t] = action_handlers[t]
              /\ signals' = <<>>
              /\ raised' = None
        /\ (call'.op # "register_action_handler") => action_handlers' = action_handlers
        /\ (call'.op = "get_available_actions") =>
              /\ \E s \in Listings(DOMAIN action_handlers) : ret' = dumps_str_list(s)
              /\ signals' = <<>>
        /\ (call'.op = "execute_action") =>
              /\ Len(handler_log') <= 1
              /\ \A i \in 1..Len(handler_log') :
                    /\ call'.action_type \in DOMAIN action_handlers
                    /\ handler_log'[i].handler = action_handlers[call'.action_type].name
      ]_vars

\* both types registered, save before open
C29_Witness ==
    /\ call.op = "get_available_actions"
    /\ ret = "[\"save\", \"open\"]"
    /\ action_handlers["save"].name = "h_raises"
    /\ action_handlers["open"].name = "h_ok"

\* C30: trigger_action_result(id, result) for a result json.dumps encodes
\* emits one action_completed with id and the encoding of result, and
\* nothing else, whether or not id or any type has a handler; it invokes no
\* handler and leaves the registry as it was.
C30_TriggerActionResult ==
    [][ (call'.op = "trigger_action_result" /\ json_encodable(call'.result)) =>
          /\ signals' = << Signal("action_completed",
                                  <<call'.action_id, json_dumps(call'.result)>>) >>
          /\ handler_log' = <<>>
          /\ callback_log' = <<>>
          /\ action_handlers' = action_handlers
          /\ action_order' = action_order
          /\ raised' = None
      ]_vars

C30_Witness ==
    /\ call.op = "trigger_action_result"
    /\ call.action_id = "a1"
    /\ call.result = PyDict(EmptyDict)
    /\ DOMAIN action_handlers = {"save"}
    /\ error_callback = "cb_raises"
    /\ signals = <<Signal("action_completed", <<"a1", "{}">>)>>


-----------------------------------------------------------------------------
(* The control thread.  Every operation runs on the one thread of the Qt   *)
(* event loop.  The loop starts an operation only when nothing else runs;  *)
(* an operation that calls user code (an action handler, the error         *)
(* callback, a load callback, a slot connected to a signal it emits) runs  *)
(* that code synchronously, inside its own frame, and the user code holds  *)
(* references to the bridges and the widget and may call them.  No         *)
(* operation tests whether another one is executing.                       *)

MaxDepth == 3

BridgeCalls == {"execute_action", "set_items"}

Operations == BridgeCalls \cup {"load_content", "_on_load_finished"}

\* the user code an operation runs synchronously
UserCode(op) ==
    CASE op = "execute_action" ->
             {"event_observer", "action_handler", "error_callback"}
      [] op = "set_items" -> {"event_observer"}
      [] op = "load_content" -> {"event_observer"}
      [] op = "_on_load_finished" -> {"event_observer", "load_callback"}

Frame(op) == [op |-> op, inside |-> None]

Top == stack[Len(stack)]

ThreadStep(new_stack, the_call) ==
    /\ stack' = new_stack
    /\ call' = the_call
    /\ UNCHANGED <<heap, items, items_by_id, error_callback, signals,
                   callback_log, ret, loaded, before_add, action_handlers,
                   action_order, handler_log, raised>>
    /\ UNCHANGED view_vars
    /\ UNCHANGED <<dispatch, instances, temp_writer>>

\* the event loop delivers the page's call, the application's call or the
\* engine's loadFinished while the thread is idle
EventLoopDispatch ==
    /\ stack = <<>>
    /\ \E op \in Operations :
          ThreadStep(<<Frame(op)>>, [op |-> "dispatch", target |-> op])

\* the executing operation reaches a call of user code
EnterUserCode ==
    /\ stack # <<>>
    /\ Top.inside = None
    /\ \E code \in UserCode(Top.op) :
          ThreadStep([stack EXCEPT ![Len(stack)].inside = code],
                     [op |-> "enter", code |-> code])

\* the user code calls an operation of a bridge or of the widget
CallFromUserCode ==
    /\ stack # <<>>
    /\ Top.inside # None
    /\ Len(stack) < MaxDepth
    /\ \E op \in BridgeCalls \cup {"load_content"} :
          ThreadStep(Append(stack, Frame(op)),
                     [op |-> "call", target |-> op, from |-> Top.inside])

\* the user code returns to the operation that called it
LeaveUserCode ==
    /\ stack # <<>>
    /\ Top.inside # None
    /\ ThreadStep([stack EXCEPT ![Len(stack)].inside = None],
                  [op |-> "leave", code |-> Top.inside])

\* the executing operation returns
FinishOperation ==
    /\ stack # <<>>
    /\ Top.inside = None
    /\ ThreadStep(SubSeq(stack, 1, Len(stack) - 1),
                  [op |-> "finish", target |-> Top.op])

ThreadNext ==
    \/ EventLoopDispatch
    \/ EnterUserCode
    \/ CallFromUserCode
    \/ LeaveUserCode
    \/ FinishOperation

ThreadSpec == Init /\ [][ThreadNext]_vars

\* C31: bridge operations are serialized on the control thread: no bridge
\* call starts while another bridge call or a load_content call is still
\* executing, calls made from action handlers, error callbacks, load
\* callbacks and event observers included.
C31_Serialized ==
    \A i, j \in 1..Len(stack) :
        (i < j /\ stack[j].op \in BridgeCalls)
            => stack[i].op \notin BridgeCalls \cup {"load_content"}


-----------------------------------------------------------------------------
(* qt_webview_bridge.utils.validate_web_content_path.  The function reads  *)
(* the file system and nothing else; what is on disk at content_path is    *)
(* its second input: the kind of the entry, the names of its children and  *)
(* what path.rglob("*") does.                                              *)

LargeDirectory == 10000

ContentPaths == {"web-dist", "nonexistent/path"}

ContentEntries == {"index.html", "js", "css", "assets", "static"}

\* what path.rglob("*") does: it yields file_count entries or raises OSError
Listing(file_count) == [raises |-> FALSE, file_count |-> file_count]

OSError == [raises |-> TRUE, file_count |-> 0]

FileCounts == {0, 5, LargeDirectory, LargeDirectory + 1}

\* the file-system states validate_web_content_path can meet: nothing, a
\* file, or a directory that holds its children and perhaps more below
OnDisk ==
    {[kind |-> "missing", entries |-> {}, listing |-> Listing(0)],
     [kind |-> "file", entries |-> {}, listing |-> Listing(0)]}
    \cup UNION {{[kind |-> "dir", entries |-> e, listing |-> n] :
                     n \in {Listing(c) : c \in {c \in FileCounts :
                                                    c >= Cardinality(e)}}
                               \cup {OSError}} :
                 e \in SUBSET ContentEntries}

\* the elements of seq that satisfy keep, in order
RECURSIVE select_seq(_, _)
select_seq(seq, kept) ==
    IF seq = <<>> THEN <<>>
    ELSE (IF Head(seq) \in kept THEN <<Head(seq)>> ELSE <<>>)
             \o select_seq(Tail(seq), kept)

common_assets == <<"js", "css", "assets", "static">>

NoIndexIssue == "No index.html found (production build missing)"

NoAssetsIssue ==
    "No common web asset directories found (js, css, assets, static)"

EnumerationIssue == "Could not enumerate files in content directory"

\* f"Very large number of files ({file_count}) - may cause performance issues"
LargeIssue(file_count) ==
    "Very large number of files (" \o ToString(file_count)
        \o ") - may cause performance issues"

\* the checks validate_web_content_path runs on an existing directory
directory_issues(on_disk) ==
    LET found_assets == select_seq(common_assets, on_disk.entries)
    IN  (IF "index.html" \notin on_disk.entries THEN <<NoIndexIssue>> ELSE <<>>)
        \o (IF found_assets = <<>> THEN <<NoAssetsIssue>> ELSE <<>>)
        \o (IF on_disk.listing.raises THEN <<EnumerationIssue>>
            ELSE IF on_disk.listing.file_count > LargeDirectory
                 THEN <<LargeIssue(on_disk.listing.file_count)>>
                 ELSE <<>>)

\* validate_web_content_path gone wrong: the checks go on after the path was
\* found missing or not a directory
validate_web_content_path_checks_on(content_path, on_disk) ==
    LET issues ==
            (IF on_disk.kind = "missing"
             THEN <<"Content path does not exist: " \o content_path>>
             ELSE <<>>)
            \o (IF on_disk.kind # "dir"
                THEN <<"Content path is not a directory: " \o content_path>>
                ELSE <<>>)
            \o directory_issues(on_disk)
    IN  [is_valid |-> Len(issues) = 0, issues |-> issues]

validate_web_content_path(content_path, on_disk) ==
    IF on_disk.kind = "missing"
    THEN [is_valid |-> FALSE,
          issues |-> <<"Content path does not exist: " \o content_path>>]
    ELSE IF on_disk.kind # "dir"
    THEN [is_valid |-> FALSE,
          issues |-> <<"Content path is not a directory: " \o content_path>>]
    ELSE LET issues == directory_issues(on_disk)
         IN  [is_valid |-> Len(issues) = 0, issues |-> issues]

\* a caller is about to validate content_path, with on_disk at that path
UtilsInit ==
    /\ heap = <<>>
    /\ items = <<>>
    /\ items_by_id = [k \in {} |-> 0]
    /\ error_callback = None
    /\ signals = <<>>
    /\ callback_log = <<>>
    /\ ret = NoReturn
    /\ \E content_path \in ContentPaths, on_disk \in OnDisk :
          call = [op |-> "about_to_validate",
                  content_path |-> content_path, on_disk |-> on_disk]
    /\ loaded = [valid |-> FALSE, items |-> <<>>]
    /\ before_add = [valid |-> FALSE]
    /\ action_handlers = [t \in {} |-> 0]
    /\ action_order = <<>>
    /\ handler_log = <<>>
    /\ raised = None
    /\ web_content_path = None
    /\ dev_html_path = None
    /\ dev_html_content = None
    /\ load_callbacks = <<>>
    /\ disk = {}
    /\ temp_writable = TRUE
    /\ temp_file = None
    /\ loading = 0
    /\ in_flight = <<>>
    /\ engine_requests = <<>>
    /\ load_callback_log = <<>>
    /\ bridge_objects = [n \in {} |-> 0]
    /\ channel_objects = [n \in {} |-> 0]
    /\ last_registered = [n \in {} |-> 0]
    /\ stack = <<>>
    /\ dispatch = [running |-> FALSE, index |-> 1, registered |-> 0]
    /\ instances = [w \in Widgets |-> NewInstance]
    /\ temp_writer = None

ValidateWebContentPath ==
    /\ call.op = "about_to_validate"
    /\ ret' = validate_web_content_path(call.content_path, call.on_disk)
    /\ call' = [call EXCEPT !.op = "validate_web_content_path"]
    /\ UNCHANGED <<heap, items, items_by_id, error_callback, signals,
                   callback_log, loaded, before_add, action_handlers,
                   action_order, handler_log, raised>>
    /\ UNCHANGED view_vars
    /\ UNCHANGED thread_vars

UtilsNext == ValidateWebContentPath

UtilsSpec == UtilsInit /\ [][UtilsNext]_vars

\* sub occurs in text
Contains(text, sub) ==
    \E i \in 1..(Len(text) - Len(sub) + 1) :
        SubSeq(text, i, i + Len(sub) - 1) = sub

\* C32: validate_web_content_path returns is_valid = true exactly when its
\* issue list is empty; a path that does not exist yields false and the single
\* 'does not exist' issue, a path that is not a directory yields false and
\* the single 'not a directory' issue, no further check adding an issue; an
\* existing directory without index.html is invalid with an index.html issue.
C32_ValidateWebContentPath ==
    call.op = "validate_web_content_path" =>
        /\ ret.is_valid = (ret.issues = <<>>)
        /\ call.on_disk.kind = "missing" =>
              /\ ~ret.is_valid
              /\ Len(ret.issues) = 1
              /\ Contains(ret.issues[1], "does not exist")
        /\ call.on_disk.kind = "file" =>
              /\ ~ret.is_valid
              /\ Len(ret.issues) = 1
              /\ Contains(ret.issues[1], "not a directory")
        /\ (call.on_disk.kind = "dir" /\ "index.html" \notin call.on_disk.entries) =>
              /\ ~ret.is_valid
              /\ \E i \in 1..Len(ret.issues) : Contains(ret.issues[i], "index.html")

\* validate_web_content_path has returned for a directory that lacks
\* index.html and nothing else
C32_Witness ==
    /\ call.op = "validate_web_content_path"
    /\ call.on_disk.kind = "dir"
    /\ call.on_disk.entries = {"js"}
    /\ ret = [is_valid |-> FALSE, issues |-> <<NoIndexIssue>>]


-----------------------------------------------------------------------------
\* file_path lies under the directory root
under(root, file_path) ==
    /\ root # None
    /\ Len(file_path) > Len(root)
    /\ SubSeq(file_path, 1, Len(root) + 1) = root \o "/"

\* C33: the development file the resolver considers is the one of the most
\* recent content configuration: every file of a content root that
\* load_content hands to the engine lies under the root of the last
\* set_web_content call, so that after set_web_content(A, dev) and then
\* set_web_content(B) no load selects a file under A.
C33_DevFileOfLastConfiguration ==
    call.op = "load_content" =>
        \A i \in 1..Len(engine_requests) :
            engine_requests[i] # TempFile
                => under(web_content_path, engine_requests[i])


-----------------------------------------------------------------------------
\* C34: for every key k of the data bridge's index, the record stored under
\* k has its id field equal to k, after any sequence of operations,
\* update_item with a partial that contains an id field included.
C34_IndexKeyIsRecordId ==
    \A k \in DOMAIN items_by_id :
        /\ "id" \in DOMAIN heap[items_by_id[k]]
        /\ heap[items_by_id[k]]["id"] = k


-----------------------------------------------------------------------------
\* C35: execute_action(t, p) with a handler registered for t that returns a
\* value json.dumps encodes, and p that is not valid JSON, emits one
\* error_occurred for the parse failure, then action_requested with the
\* raw params, invokes the handler with an empty dict, and emits
\* action_completed keyed by t; nothing propagates to the caller.
C35_MalformedParams ==
    ( /\ ExecutedReturningHandler
      /\ ~json_decodable(call.params_json)
      /\ action_handlers[call.action_type].value.type # "object" )
    => /\ raised = None
       /\ Len(signals) = 3
       /\ signals[1].signal = "error_occurred"
       /\ signals[2] = Signal("action_requested",
                              <<call.action_type, call.params_json>>)
       /\ signals[3].signal = "action_completed"
       /\ signals[3].args[1] = call.action_type
       /\ Len(handler_log) = 1
       /\ handler_log[1].handler = action_handlers[call.action_type].name
       /\ handler_log[1].params = PyDict(EmptyDict)
       /\ handler_log[1].after = 2


-----------------------------------------------------------------------------
\* C36: every load_content call ends, before it returns, in exactly one of
\* two outcomes: exactly one engine load request, or exactly one
\* content_failed signal; never both and never neither; and load_content
\* itself emits neither content_loaded nor bridge_ready and invokes no load
\* callback.
C36_RequestOrFailure ==
    call.op = "load_content" =>
        LET failed == SignalsNamed(signals, "content_failed")
        IN  /\ \/ Len(engine_requests) = 1 /\ Cardinality(failed) = 0
               \/ Len(engine_requests) = 0 /\ Cardinality(failed) = 1
            /\ SignalsNamed(signals, "content_loaded") = {}
            /\ SignalsNamed(signals, "bridge_ready") = {}
            /\ load_callback_log = <<>>

\* load_content has failed to write the inline HTML, with load callbacks
\* registered
C36_Witness ==
    /\ call.op = "load_content"
    /\ load_callbacks # <<>>
    /\ ~temp_writable
    /\ engine_requests = <<>>
    /\ signals = <<Signal("content_failed", <<PermissionError>>)>>


-----------------------------------------------------------------------------
\* old is an initial part of new
IsPrefix(old, new) ==
    /\ Len(old) <= Len(new)
    /\ SubSeq(new, 1, Len(old)) = old

\* C37: the load-callback list is append-only and never cleared, and every
\* engine completion reporting success, whether of the first load_content,
\* of a repeated one or of a reload, invokes every callback registered up to
\* then exactly once: a callback registered once runs once per successful
\* completion.
C37_CallbacksEveryCompletion ==
    [][ /\ IsPrefix(load_callbacks, load_callbacks')
        /\ (call'.op = "_on_load_finished" /\ call'.success) =>
              /\ load_callbacks' = load_callbacks
              /\ Len(load_callback_log') = Len(load_callbacks)
              /\ \A i \in 1..Len(load_callbacks) :
                    load_callback_log'[i].callback = load_callbacks[i].name
      ]_vars

\* the completion of a reload reports success and runs the two registered
\* callbacks
C37_Witness ==
    /\ call.op = "_on_load_finished"
    /\ call.success
    /\ call.request = "reload"
    /\ Len(load_callbacks) = 2
    /\ Len(load_callback_log) = 2
    /\ load_callback_log[1].callback = load_callbacks[1].name
    /\ load_callback_log[2].callback = load_callbacks[2].name


-----------------------------------------------------------------------------
(* The callback loop of _on_load_finished, one iteration at a time.        *)
(* `for callback in self._load_callbacks` reads the list itself at every   *)
(* iteration: the loop ends when its position has passed the end of the    *)
(* list as it is then.  A load callback is the application's code and may  *)
(* call add_load_callback on the widget whose completion it is told of.    *)

MaxRegistered == 4

\* a load callback that registers itself again for the next completion
ReentrantCallbacks ==
    { [name |-> "on_load_again", outcome |-> "returns", message |-> "",
       registers |-> TRUE] }

DispatchCallbacks == LoadCallbacks \cup ReentrantCallbacks

\* callback(), with what the callback does to the widget
run_load_callback(self, callback) ==
    LET s1 == call_load_callback(self, callback)
    IN  IF "registers" \in DOMAIN callback
        THEN add_load_callback(s1, callback)
        ELSE s1

DispatchSelf == [ViewSelf EXCEPT !.signals = signals,
                                 !.load_callback_log = load_callback_log]

DispatchReturn(self, now, the_call) ==
    /\ dispatch' = now
    /\ ViewAssigns(self, NoReturn, None, the_call)
    /\ UNCHANGED <<stack, instances, temp_writer>>

\* the application registers a callback between two events
RegisterLoadCallback ==
    /\ ~dispatch.running
    /\ Len(load_callbacks) < MaxCallbacks
    /\ \E callback \in DispatchCallbacks :
          DispatchReturn(add_load_callback(ViewSelf, callback), dispatch,
                         [op |-> "add_load_callback", callback |-> callback.name])

\* the application asks for a reload between two events
RequestReload ==
    /\ ~dispatch.running
    /\ loading < MaxLoads
    /\ DispatchReturn(reload_content(ViewSelf), dispatch, [op |-> "reload_content"])

\* loadFinished(True) arrives: the two signals are emitted and the loop
\* starts at the head of the list
BeginDispatch ==
    /\ ~dispatch.running
    /\ loading > 0
    /\ DispatchReturn(
           emit(emit([ViewSelf EXCEPT !.loading = @ - 1, !.in_flight = Tail(@)],
                     "content_loaded", <<>>), "bridge_ready", <<>>),
           [running |-> TRUE, index |-> 1, registered |-> Len(load_callbacks)],
           [op |-> "_on_load_finished", success |-> TRUE,
            request |-> Head(in_flight), returned |-> FALSE])

\* one iteration: the list has an element at the loop's position, which is
\* invoked
DispatchStep ==
    /\ dispatch.running
    /\ dispatch.index <= Len(load_callbacks)
    /\ "registers" \in DOMAIN load_callbacks[dispatch.index]
           => Len(load_callbacks) < MaxRegistered
    /\ DispatchReturn(run_load_callback(DispatchSelf, load_callbacks[dispatch.index]),
                      [dispatch EXCEPT !.index = @ + 1], call)

\* the position has passed the end of the list: _on_load_finished returns
EndDispatch ==
    /\ dispatch.running
    /\ dispatch.index > Len(load_callbacks)
    /\ DispatchReturn(DispatchSelf, [dispatch EXCEPT !.running = FALSE],
                      [call EXCEPT !.returned = TRUE])

DispatchNext ==
    \/ RegisterLoadCallback
    \/ RequestReload
    \/ BeginDispatch
    \/ DispatchStep
    \/ EndDispatch

DispatchSpec == Init /\ [][DispatchNext]_vars

\* C38: the callback dispatch of a success completion terminates: it invokes
\* the callbacks that were registered before the completion, each exactly
\* once and in order, and then ends, also when a callback registers further
\* load callbacks while the dispatch is running.
C38_DispatchTerminates ==
    call.op = "_on_load_finished" =>
        /\ Len(load_callback_log) <= dispatch.registered
        /\ \A i \in 1..Len(load_callback_log) :
              load_callback_log[i].callback = load_callbacks[i].name
        /\ call.returned => Len(load_callback_log) = dispatch.registered


-----------------------------------------------------------------------------
(* Several CleanWebView instances in one process.  Every instance computes *)
(* the same temp path, Path(__file__).parent / "temp" /                    *)
(* "webview_content.html"; web_view.load(url) returns at once and the       *)
(* instance's engine opens the file later.  The instances here are         *)
(* configured with inline HTML only.                                       *)

InstanceHtmls == {"<h1>one</h1>", "<h1>two</h1>"}

\* the widget w when one of its methods starts
InstanceSelf(w) ==
    [ViewSelf EXCEPT !.dev_html_content = instances[w].dev_html_content]

InstanceStep(now, writer, file, the_call) ==
    /\ instances' = now
    /\ temp_writer' = writer
    /\ temp_file' = file
    /\ call' = the_call
    /\ UNCHANGED <<heap, items, items_by_id, error_callback, signals,
                   callback_log, ret, loaded, before_add, action_handlers,
                   action_order, handler_log, raised>>
    /\ UNCHANGED <<web_content_path, dev_html_path, dev_html_content,
                   load_callbacks, disk, temp_writable, loading, in_flight,
                   engine_requests, load_callback_log, bridge_objects,
                   channel_objects, last_registered>>
    /\ UNCHANGED <<stack, dispatch>>

InstanceSetDevHtmlContent ==
    \E w \in Widgets, html_content \in InstanceHtmls :
        InstanceStep(
            [instances EXCEPT ![w].dev_html_content =
                 set_dev_html_content(InstanceSelf(w), html_content).dev_html_content],
            temp_writer, temp_file,
            [op |-> "set_dev_html_content", widget |-> w,
             html_content |-> html_content])

\* w.load_content(): when it hands the temp file to w's engine, the engine
\* has a read of that path ahead of it
InstanceLoadContent ==
    \E w \in Widgets :
        LET r == load_content(InstanceSelf(w))
            requested == r.self.engine_requests = <<TempFile>>
        IN  InstanceStep(
                IF requested
                THEN [instances EXCEPT ![w].wrote = r.self.temp_file,
                                       ![w].reading = TRUE]
                ELSE instances,
                IF requested THEN w ELSE temp_writer,
                r.self.temp_file,
                [op |-> "load_content", widget |-> w, requested |-> requested])

\* w's engine opens the URL it was handed and reads what the file holds now
EngineReads ==
    \E w \in Widgets :
        /\ instances[w].reading
        /\ InstanceStep([instances EXCEPT ![w].reading = FALSE,
                                          ![w].received = temp_file],
                        temp_writer, temp_file,
                        [op |-> "engine_read", widget |-> w])

InstancesNext ==
    \/ InstanceSetDevHtmlContent
    \/ InstanceLoadContent
    \/ EngineReads

InstancesSpec == Init /\ [][InstancesNext]_vars

\* C39: inline HTML is written to one fixed temp path that all widgets
\* share and every inline load overwrites: an engine receives what the
\* widget that wrote the file last has written, so that when B's load
\* writes after A's and before A's engine reads, A's engine receives B's
\* content; and the file is never removed.
C39_SharedTempFile ==
    [][ /\ (call'.op = "load_content" /\ call'.requested) =>
              /\ temp_file' = instances[call'.widget].dev_html_content
              /\ temp_writer' = call'.widget
        /\ call'.op = "engine_read" =>
              /\ temp_writer # None
              /\ instances'[call'.widget].received = instances[temp_writer].wrote
        /\ temp_file # None => temp_file' # None
      ]_vars

\* A's engine has read B's content: B loaded after A's load and before A's
\* engine opened the file
C39_Witness ==
    /\ call = [op |-> "engine_read", widget |-> "A"]
    /\ temp_writer = "B"
    /\ instances["A"].wrote = "<h1>one</h1>"
    /\ instances["B"].wrote = "<h1>two</h1>"
    /\ instances["A"].received = "<h1>two</h1>"

=============================================================================
